---- MODULE Spec2Model ----
(***************************************************************************)
(* Route staticness classifier of 1jm (analyzeRoutes and its helpers).     *)
(*                                                                         *)
(* The analysed project is the input: a syntax tree of the entry file      *)
(* (router variables, the calls made on them, the handler functions) and   *)
(* the declarations that the type checker resolves identifiers to.  The    *)
(* walker (analyzeRouter) is a state machine with an explicit call stack;  *)
(* the handler and value classifiers are pure operators.                   *)
(***************************************************************************)
EXTENDS Integers, Sequences, FiniteSets, TLC

VARIABLES
    program,         \* the entry file under analysis (never changes)
    pc,              \* position inside analyzeRoutes
    rootRouterName,  \* <<>> (undefined) or <<name>>
    stack,           \* active analyzeRouter calls, outermost first
    results,         \* the results array
    console,         \* what the invocations printed, oldest first
    run,             \* number of the current invocation of analyzeRoutes
    previous,        \* <<list>> returned by the previous invocation, <<>> before it
    output           \* <<>> until the build writes config.json, then <<its content>>

vars == <<program, pc, rootRouterName, stack, results, console, run, previous, output>>

(***************************************************************************)
(* Syntax trees.  A node has a kind k (the ts.SyntaxKind name), a name or  *)
(* literal text s, the characters t of a path literal, and children kids.  *)
(***************************************************************************)
Node(k, s, kids) == [k |-> k, s |-> s, t |-> <<>>, kids |-> kids]

Str(s) == Node("StringLiteral", s, <<>>)
PathLit(chars) == [k |-> "StringLiteral", s |-> "", t |-> chars, kids |-> <<>>]
Num(s) == Node("NumericLiteral", s, <<>>)
TrueKw == Node("TrueKeyword", "true", <<>>)
FalseKw == Node("FalseKeyword", "false", <<>>)
NullKw == Node("NullKeyword", "null", <<>>)
Tmpl0(s) == Node("NoSubstitutionTemplateLiteral", s, <<>>)
TmplExpr(subs) == Node("TemplateExpression", "", subs)
Ident(name) == Node("Identifier", name, <<>>)
Prop(base, name) == Node("PropertyAccessExpression", name, <<base>>)
ElemAccess(base, arg) == Node("ElementAccessExpression", "", <<base, arg>>)
Call(callee, args) == Node("CallExpression", "", <<callee>> \o args)
New(callee, args) == Node("NewExpression", "", <<callee>> \o args)
Binary(op, l, r) == Node("BinaryExpression", op, <<l, r>>)
Await(e) == Node("AwaitExpression", "", <<e>>)
Arr(elems) == Node("ArrayLiteralExpression", "", elems)
Obj(members) == Node("ObjectLiteralExpression", "", members)
\* object members; a computed key is the member's first child
PA(name, value) == Node("PropertyAssignment", name, <<value>>)
PAComputed(keyExpr, value) == Node("PropertyAssignment", "", <<Node("ComputedPropertyName", "", <<keyExpr>>), value>>)
Short(name) == Node("ShorthandPropertyAssignment", name, <<>>)
Spread(e) == Node("SpreadAssignment", "", <<e>>)
Method(name, fn) == Node("MethodDeclaration", name, <<fn>>)
\* statements
Block(stmts) == Node("Block", "", stmts)
Return(e) == Node("ReturnStatement", "", <<e>>)
ReturnVoid == Node("ReturnStatement", "", <<>>)
ExprStmt(e) == Node("ExpressionStatement", "", <<e>>)
VarStmt(decl) == Node("VariableStatement", "", <<decl>>)
If(cond, thenB) == Node("IfStatement", "", <<cond, thenB>>)
\* variable declaration: s is the declaration form, kids are <<name, initializer>>
VarDeclNode(flags, nameNode, init) == Node("VariableDeclaration", flags, <<nameNode, init>>)
ObjPattern(names) == Node("ObjectBindingPattern", "", [i \in 1..Len(names) |-> Node("BindingElement", names[i], <<>>)])
\* functions: kids are <<parameter names..., body>>; a parameter is an
\* Identifier or an ObjectBindingPattern
Arrow(params, body) == Node("ArrowFunction", "", params \o <<body>>)
FnExpr(params, body) == Node("FunctionExpression", "", params \o <<body>>)
FnDecl(name, params, body) == Node("FunctionDeclaration", name, params \o <<body>>)

IsFunctionLike(n) ==
    n.k \in {"ArrowFunction", "FunctionExpression", "FunctionDeclaration", "MethodDeclaration"}
Missing == Node("Missing", "", <<>>)
FuncParams(f) == SubSeq(f.kids, 1, Len(f.kids) - 1)
FuncBody(f) == f.kids[Len(f.kids)]
Initializer(p) == p.kids[Len(p.kids)]
HasComputedName(p) == p.kids # <<>> /\ p.kids[1].k = "ComputedPropertyName"

\* frequently used fragments
DateNow == Call(Prop(Ident("Date"), "now"), <<>>)
MathRandom == Call(Prop(Ident("Math"), "random"), <<>>)
CJson(args) == Call(Prop(Ident("c"), "json"), args)

(***************************************************************************)
(* Declarations, as the type checker sees them.  A declaration has a kind  *)
(* dk, a declaration form (const, let, var) and an optional initializer.   *)
(* A symbol is either a plain symbol with its own declaration or an import *)
(* alias whose target's declaration is in another file.                    *)
(***************************************************************************)
Decl(dk, flags, init) == [dk |-> dk, flags |-> flags, init |-> init]
VarInit(flags, init) == Decl("VariableDeclaration", flags, <<init>>)
Plain(d) == [alias |-> FALSE, decl |-> <<d>>, aliased |-> <<>>]
Imported(target) == [alias |-> TRUE, decl |-> <<Decl("ImportSpecifier", "", <<>>)>>, aliased |-> target]
\* a JSON module: its default export is declared by the JSON source file
\* itself, whose single statement is the document
JsonFile(document) == Decl("SourceFile", "", <<document>>)
ImportedJson(document) ==
    [alias |-> TRUE, decl |-> <<Decl("ImportClause", "", <<>>)>>, aliased |-> <<JsonFile(document)>>]

HonoNew == New(Ident("Hono"), <<>>)
VersionObj == Obj(<<PA("version", Num("1"))>>)
MetaObj == Obj(<<PA("meta", Obj(<<PA("title", Str("Title"))>>)), PA("stamp", DateNow)>>)
ConfigJson == Obj(<<PA("meta", Obj(<<PA("title", Str("My Site"))>>)), PA("active", TrueKw)>>)
BaseJson == Obj(<<PA("a", Num("1")), PA("b", Num("2"))>>)
BadData == Obj(<<PA("time", DateNow)>>)
OkHandler == Arrow(<<Ident("c")>>, CJson(<<Obj(<<PA("status", Str("ok"))>>)>>))
NextHandler(p) == Arrow(<<Ident("c"), Ident(p)>>, Call(Ident(p), <<>>))

\* a chain of constants K0 = K1, K1 = K2, ..., K11 = 1, longer than the
\* evaluator's depth limit
ChainLength == 11
ChainName(i) == "K" \o ToString(i)
ChainInit(name) ==
    IF name = ChainName(ChainLength) THEN Num("1")
    ELSE Ident(ChainName(1 + CHOOSE i \in 0..ChainLength - 1 : ChainName(i) = name))

\* The project's declarations: name -> symbol.  Names outside the domain
\* (process, Bun, ghost, ...) have no symbol.
Symbols ==
    [n \in {} |-> Plain(Decl("", "", <<>>))]
    @@ ("app" :> Plain(VarInit("const", HonoNew)))
    @@ ("admin" :> Plain(VarInit("const", HonoNew)))
    @@ ("v1" :> Plain(VarInit("const", HonoNew)))
    @@ ("users" :> Plain(VarInit("const", HonoNew)))
    @@ ("DATA" :> Plain(VarInit("const", VersionObj)))
    @@ ("data" :> Plain(VarInit("let", VersionObj)))
    @@ ("legacy" :> Plain(VarInit("var", VersionObj)))
    @@ ("CFG" :> Plain(VarInit("const", MetaObj)))
    @@ ("cfg" :> Plain(VarInit("let", MetaObj)))
    @@ ("START_TIME" :> Plain(VarInit("const", DateNow)))
    @@ ("version" :> Plain(VarInit("const", Str("1.0"))))
    @@ ("ver" :> Plain(VarInit("let", Str("1.0"))))
    @@ ("ALIAS" :> Plain(VarInit("const", Ident("version"))))
    @@ ("LOOSE" :> Plain(VarInit("const", Ident("ver"))))
    @@ ("stamp" :> Plain(VarInit("let", DateNow)))
    @@ ("pending" :> Plain(Decl("VariableDeclaration", "let", <<>>)))
    @@ ("VERSION" :> Imported(<<VarInit("const", Str("1.0.5"))>>))
    @@ ("TIME" :> Imported(<<VarInit("const", DateNow)>>))
    @@ ("ext" :> Imported(<<>>))
    @@ ("getStatus" :> Imported(<<VarInit("const", OkHandler)>>))
    @@ ("getInfo" :> Imported(<<Decl("FunctionDeclaration", "", <<FnDecl("getInfo", <<Ident("c")>>, Block(<<Return(CJson(<<Ident("VERSION")>>))>>))>>)>>))
    @@ ("getTime" :> Imported(<<VarInit("const", Arrow(<<Ident("c")>>, CJson(<<DateNow>>)))>>))
    @@ ("localStatus" :> Plain(VarInit("const", OkHandler)))
    @@ ("localTime" :> Plain(VarInit("const", Arrow(<<Ident("c")>>, CJson(<<DateNow>>)))))
    @@ ("config" :> ImportedJson(ConfigJson))
    @@ ("base" :> ImportedJson(BaseJson))
    @@ ("badData" :> Imported(<<VarInit("const", BadData)>>))
    @@ ("CYC_A" :> Plain(VarInit("const", Ident("CYC_B"))))
    @@ ("CYC_B" :> Plain(VarInit("const", Ident("CYC_A"))))
    @@ ("auth" :> Plain(VarInit("const", NextHandler("next"))))
    @@ ("log" :> Plain(VarInit("const", NextHandler("n"))))
    @@ ("h1" :> Plain(Decl("FunctionDeclaration", "", <<FnDecl("h1", <<Ident("c")>>, Block(<<Return(CJson(<<>>))>>))>>)))
    @@ ("c" :> Plain(Decl("Parameter", "", <<>>)))
    @@ ("next" :> Plain(Decl("Parameter", "", <<>>)))
    @@ ("n" :> Plain(Decl("Parameter", "", <<>>)))
    @@ ("req" :> Plain(Decl("BindingElement", "", <<>>)))
    @@ ("q" :> Plain(VarInit("const", Call(Prop(Prop(Ident("c"), "req"), "query"), <<Str("q")>>))))
    @@ ("x" :> Plain(Decl("Parameter", "", <<>>)))
    @@ ("ctx" :> Plain(VarInit("const", Ident("c"))))
    @@ [name \in {ChainName(i) : i \in 0..ChainLength} |-> Plain(VarInit("const", ChainInit(name)))]
    @@ ("Date" :> Plain(Decl("VariableDeclaration", "var", <<>>)))
    @@ ("Math" :> Plain(Decl("VariableDeclaration", "var", <<>>)))

\* ts.Symbol.flags & ts.SymbolFlags.Alias, then the declaration
getDeclarationNoAlias(symbol) == symbol.decl
getDeclaration(symbol) ==
    IF symbol.alias THEN symbol.aliased ELSE symbol.decl

RECURSIVE ObjTypeOf(_)
RECURSIVE FindMember(_, _, _)
\* the property named name of the type of expression base: the object-literal
\* member that declares it, <<>> when the type has no such property
MemberIn(ty, name) ==
    IF ty = <<>> THEN <<>> ELSE FindMember(ty[1].kids, name, Len(ty[1].kids))
MemberOf(base, name) == MemberIn(ObjTypeOf(base), name)
NamesMember(m, name) ==
    /\ m.k \in {"PropertyAssignment", "ShorthandPropertyAssignment", "MethodDeclaration"}
    /\ ~HasComputedName(m) /\ m.s = name
\* later members override earlier ones; a spread brings its source's members
FoundOrEarlier(found, members, name, i) ==
    IF found # <<>> THEN found ELSE FindMember(members, name, i - 1)
FindMember(members, name, i) ==
    IF i = 0 THEN <<>>
    ELSE IF NamesMember(members[i], name) THEN <<members[i]>>
    ELSE FoundOrEarlier(IF members[i].k = "SpreadAssignment"
                        THEN MemberOf(members[i].kids[1], name) ELSE <<>>,
                        members, name, i)
IsTraceable(decl) ==
    decl # <<>> /\ decl[1].dk = "VariableDeclaration" /\ decl[1].init # <<>>
IdentSymbol(name) == IF name \in DOMAIN Symbols THEN <<Symbols[name]>> ELSE <<>>
getDeclarationOpt(symbol) == IF symbol = <<>> THEN <<>> ELSE getDeclaration(symbol[1])
\* the expression that gives a member its type
MemberValue(m) ==
    IF m = <<>> THEN <<>>
    ELSE IF m[1].k = "PropertyAssignment" THEN <<Initializer(m[1])>>
    ELSE IF m[1].k = "ShorthandPropertyAssignment" THEN <<Ident(m[1].s)>>
    ELSE <<>>
IsJsonFile(decl) == decl # <<>> /\ decl[1].dk = "SourceFile"
TypeOfInitializer(decl) ==
    IF IsTraceable(decl) \/ IsJsonFile(decl) THEN <<decl[1].init[1]>> ELSE <<>>
\* the object-literal shape the checker infers for an expression (the
\* declaration form of a variable plays no part in it), <<>> for any other type
TypeOfOpt(e) == IF e = <<>> THEN <<>> ELSE ObjTypeOf(e[1])
ObjTypeOf(e) ==
    IF e.k = "ObjectLiteralExpression" THEN <<e>>
    ELSE IF e.k = "Identifier"
         THEN TypeOfOpt(TypeOfInitializer(getDeclarationOpt(IdentSymbol(e.s))))
    ELSE IF e.k = "PropertyAccessExpression"
         THEN TypeOfOpt(MemberValue(MemberOf(e.kids[1], e.s)))
    ELSE <<>>

\* checker.getSymbolAtLocation: <<symbol>>, or <<>> for undefined; the symbol
\* of a property access is the property's, declared by the member
MemberSymbol(m) ==
    IF m = <<>> THEN <<>>
    ELSE <<Plain(Decl(m[1].k, "", IF m[1].kids = <<>> THEN <<>> ELSE <<Initializer(m[1])>>))>>
getSymbolAtLocation(node) ==
    IF node.k = "Identifier" THEN IdentSymbol(node.s)
    ELSE IF node.k = "PropertyAccessExpression" THEN MemberSymbol(MemberOf(node.kids[1], node.s))
    ELSE <<>>
\* checker.getShorthandAssignmentValueSymbol
getShorthandAssignmentValueSymbol(p) == IdentSymbol(p.s)

(***************************************************************************)
(* Deep static value evaluator                                             *)
(***************************************************************************)
MaxDepth == 10

\* (ts.getCombinedNodeFlags(decl) & ts.NodeFlags.Const) !== 0
IsConstAlways(decl) == TRUE
IsConst(decl) == decl.flags = "const"

\* if (depth > 10) return false
ExceedsDepthLate(depth) == depth > MaxDepth + 5
ExceedsDepth(depth) == depth > MaxDepth

\* ts.isStringLiteral(node) || ... || ts.isNoSubstitutionTemplateLiteral(node)
IsLiteralOrTemplate(node) ==
    node.k \in {"StringLiteral", "NumericLiteral", "TrueKeyword", "FalseKeyword",
                "NullKeyword", "NoSubstitutionTemplateLiteral", "TemplateExpression"}
IsLiteral(node) ==
    node.k \in {"StringLiteral", "NumericLiteral", "TrueKeyword", "FalseKeyword",
                "NullKeyword", "NoSubstitutionTemplateLiteral"}

RECURSIVE isDeeplyStatic(_, _)
\* decl && ts.isVariableDeclaration(decl) && decl.initializer ? isDeeplyStatic(...) : false
InitializerStatic(decl, depth) ==
    IF IsTraceable(decl) THEN isDeeplyStatic(decl[1].init[1], depth + 1) ELSE FALSE
ShorthandStatic(p, depth) ==
    InitializerStatic(getDeclarationOpt(getShorthandAssignmentValueSymbol(p)), depth)
\* the callback of node.properties.every
MemberStaticIgnoringKey(p, depth) ==
    IF p.k = "SpreadAssignment" THEN isDeeplyStatic(p.kids[1], depth + 1)
    ELSE IF p.k = "PropertyAssignment" THEN isDeeplyStatic(Initializer(p), depth + 1)
    ELSE IF p.k = "ShorthandPropertyAssignment" THEN ShorthandStatic(p, depth)
    ELSE FALSE
MemberStatic(p, depth) ==
    IF p.k = "SpreadAssignment" THEN isDeeplyStatic(p.kids[1], depth + 1)
    ELSE IF HasComputedName(p) /\ ~isDeeplyStatic(p.kids[1].kids[1], depth + 1) THEN FALSE
    ELSE IF p.k = "PropertyAssignment" THEN isDeeplyStatic(Initializer(p), depth + 1)
    ELSE IF p.k = "ShorthandPropertyAssignment" THEN ShorthandStatic(p, depth)
    ELSE FALSE
PropertyDeclStatic(decl, depth) ==
    IF decl = <<>> THEN FALSE
    ELSE IF decl[1].dk = "PropertyAssignment" \/ IsTraceable(decl)
         THEN isDeeplyStatic(decl[1].init[1], depth + 1)
    ELSE FALSE
PropertyAccessStatic(node, depth) ==
    PropertyDeclStatic(getDeclarationOpt(getSymbolAtLocation(node)), depth)
ConstInitializerStatic(decl, depth) ==
    IF IsTraceable(decl)
    THEN IsConst(decl[1]) /\ isDeeplyStatic(decl[1].init[1], depth + 1)
    ELSE FALSE
IdentifierStatic(node, depth) ==
    IF node.s = "undefined" THEN TRUE
    ELSE ConstInitializerStatic(getDeclarationOpt(getSymbolAtLocation(node)), depth)
isDeeplyStatic(node, depth) ==
    IF ExceedsDepth(depth) THEN FALSE
    ELSE IF IsLiteral(node) THEN TRUE
    ELSE IF node.k = "ArrayLiteralExpression"
         THEN \A i \in 1..Len(node.kids) : isDeeplyStatic(node.kids[i], depth + 1)
    ELSE IF node.k = "ObjectLiteralExpression"
         THEN \A i \in 1..Len(node.kids) : MemberStatic(node.kids[i], depth)
    ELSE IF node.k = "PropertyAccessExpression" THEN PropertyAccessStatic(node, depth)
    ELSE IF node.k = "Identifier" THEN IdentifierStatic(node, depth)
    ELSE FALSE


(***************************************************************************)
(* Handler purity analyzer                                                 *)
(***************************************************************************)
Static == [isStatic |-> TRUE, reason |-> <<>>]
Dynamic(reason) == [isStatic |-> FALSE, reason |-> <<reason>>]

\* analyzeReturn: the returned expression must be a call x.json/text/html
analyzeReturn(expr) ==
    IF expr.k = "CallExpression" /\ expr.kids[1].k = "PropertyAccessExpression"
       /\ expr.kids[1].s \in {"json", "text", "html"}
    THEN IF Len(expr.kids) = 1 THEN Static
         ELSE IF isDeeplyStatic(expr.kids[2], 0) THEN Static
         ELSE Dynamic("Response body has variables")
    ELSE Dynamic("Complex return value")

\* func.getText().includes(pat), on the text printed without optional blanks:
\* the text of a name followed by the member or call that completes pat, or a
\* string literal holding pat
EndsWithName(e, name) ==
    (e.k = "Identifier" \/ e.k = "PropertyAccessExpression") /\ e.s = name
NodeTextHit(n, pat) ==
    \/ pat = "Date.now()" /\ n.k = "CallExpression" /\ Len(n.kids) = 1
       /\ n.kids[1].k = "PropertyAccessExpression" /\ n.kids[1].s = "now"
       /\ EndsWithName(n.kids[1].kids[1], "Date")
    \/ pat = "Math." /\ n.k = "PropertyAccessExpression" /\ EndsWithName(n.kids[1], "Math")
    \/ pat = "process.env" /\ n.k = "PropertyAccessExpression" /\ n.s = "env"
       /\ EndsWithName(n.kids[1], "process")
    \/ pat = "bun.env" /\ n.k = "PropertyAccessExpression" /\ n.s = "env"
       /\ EndsWithName(n.kids[1], "bun")
    \/ pat = "next()" /\ n.k = "CallExpression" /\ Len(n.kids) = 1 /\ EndsWithName(n.kids[1], "next")
    \/ n.k \in {"StringLiteral", "NoSubstitutionTemplateLiteral"} /\ n.s = pat
RECURSIVE TextIncludes(_, _)
TextIncludes(n, pat) ==
    NodeTextHit(n, pat) \/ \E i \in 1..Len(n.kids) : TextIncludes(n.kids[i], pat)

UsesDynamicGlobal(func) ==
    \E pat \in {"Date.now()", "Math.", "process.env", "bun.env"} : TextIncludes(func, pat)

\* checkContextUsage: the first impure node in document order gives the reason
Allowed == {"json", "text", "html", "body", "status", "header", "set", "var", "render"}
LastOf(S) == CHOOSE i \in S : \A j \in S : j <= i
NodeImpurity(n, contextName) ==
    IF n.k = "PropertyAccessExpression" /\ n.kids[1].k = "Identifier"
       /\ n.kids[1].s = contextName /\ n.s \notin Allowed
    THEN <<"Uses dynamic context: c." \o n.s>>
    ELSE IF n.k = "VariableDeclaration" /\ n.kids[2].k = "Identifier" /\ n.kids[2].s = contextName
    THEN IF n.kids[1].k = "ObjectBindingPattern"
         THEN LET els == n.kids[1].kids
                  bad == {i \in 1..Len(els) : els[i].s \notin Allowed}
              IN  IF bad = {} THEN <<>> ELSE <<"Uses dynamic context: c." \o els[LastOf(bad)].s>>
         ELSE <<"Aliasing context object">>
    ELSE <<>>
RECURSIVE checkContextUsage(_, _)
RECURSIVE FirstImpure(_, _, _)
FirstImpure(kids, i, contextName) ==
    IF i > Len(kids) THEN <<>>
    ELSE LET r == checkContextUsage(kids[i], contextName)
         IN  IF r # <<>> THEN r ELSE FirstImpure(kids, i + 1, contextName)
checkContextUsage(n, contextName) ==
    LET r == NodeImpurity(n, contextName)
    IN  IF r # <<>> THEN r ELSE FirstImpure(n.kids, 1, contextName)

\* findReturns: acc is [hasReturn, failReason]
RECURSIVE findReturns(_, _)
RECURSIVE FindReturnsIn(_, _, _)
FindReturnsIn(kids, i, acc) ==
    IF i > Len(kids) THEN acc ELSE FindReturnsIn(kids, i + 1, findReturns(kids[i], acc))
findReturns(n, acc) ==
    IF acc.failReason # <<>> THEN acc
    ELSE LET acc1 == IF n.k = "ReturnStatement" /\ n.kids # <<>>
                     THEN [hasReturn |-> TRUE, failReason |-> analyzeReturn(n.kids[1]).reason]
                     ELSE acc
         IN  IF IsFunctionLike(n) THEN acc1 ELSE FindReturnsIn(n.kids, 1, acc1)

ReturnVerdict(found) ==
    IF ~found.hasReturn THEN Dynamic("No return")
    ELSE IF found.failReason # <<>> THEN Dynamic(found.failReason[1])
    ELSE Static
\* 3. Return Analysis, reached when the context scan found nothing
ReturnAnalysis(body) ==
    IF body.k = "Missing" THEN Dynamic("No Body")
    ELSE IF body.k # "Block" THEN analyzeReturn(body)
    ELSE ReturnVerdict(findReturns(body, [hasReturn |-> FALSE, failReason |-> <<>>]))
AfterContextScan(func, impurity) ==
    IF impurity # <<>> THEN Dynamic(impurity[1]) ELSE ReturnAnalysis(FuncBody(func))
\* 2. Context Usage Scan, when the first parameter is an identifier
ContextScan(func, params, body) ==
    IF params # <<>> /\ params[1].k = "Identifier"
    THEN checkContextUsage(IF body.k = "Missing" THEN func ELSE body, params[1].s)
    ELSE <<>>
analyzeFunctionBody(func) ==
    IF UsesDynamicGlobal(func) THEN Dynamic("Uses Dynamic Global")
    ELSE IF TextIncludes(func, "next()") THEN Dynamic("Middleware chain (calls next)")
    ELSE AfterContextScan(func, ContextScan(func, FuncParams(func), FuncBody(func)))

RECURSIVE analyzeHandler(_)
analyzeDeclaredLenient(decl) ==
    IF decl = <<>> THEN Dynamic("No definition found")
    ELSE IF IsTraceable(decl) THEN analyzeHandler(decl[1].init[1])
    ELSE IF decl[1].dk = "FunctionDeclaration" THEN analyzeFunctionBody(decl[1].init[1])
    ELSE Static
analyzeDeclared(decl) ==
    IF decl = <<>> THEN Dynamic("No definition found")
    ELSE IF IsTraceable(decl) THEN analyzeHandler(decl[1].init[1])
    ELSE IF decl[1].dk = "FunctionDeclaration" THEN analyzeFunctionBody(decl[1].init[1])
    ELSE Dynamic("External function")
analyzeResolved(symbol) ==
    IF symbol = <<>> THEN Dynamic("Unresolved Identifier")
    ELSE analyzeDeclared(getDeclaration(symbol[1]))
analyzeHandler(node) ==
    IF node.k = "Identifier" THEN analyzeResolved(getSymbolAtLocation(node))
    ELSE IF node.k \in {"ArrowFunction", "FunctionExpression"} THEN analyzeFunctionBody(node)
    ELSE Dynamic("Unknown Handler")

(***************************************************************************)
(* Paths are sequences of characters.                                      *)
(***************************************************************************)
\* (routePrefix + localPath).replace(/\/+/g, "/")
RECURSIVE CollapseFrom(_, _)
CollapseFrom(p, i) ==
    IF i > Len(p) THEN <<>>
    ELSE IF p[i] = "/" /\ i > 1 /\ p[i - 1] = "/" THEN CollapseFrom(p, i + 1)
    ELSE <<p[i]>> \o CollapseFrom(p, i + 1)
Collapse(p) == CollapseFrom(p, 1)

\* fullPath.includes(":") || fullPath.includes("*")
Includes(p, ch) == \E i \in 1..Len(p) : p[i] = ch
HasWildcardOnly(p) == Includes(p, "*")
HasMarker(p) == Includes(p, ":") \/ Includes(p, "*")

\* String.prototype.localeCompare on the characters paths are written with:
\* punctuation sorts before digits, digits before letters
CollationOrder ==
    <<":", "*", "/", "0", "1", "2", "3", "4", "5", "6", "7", "8", "9",
      "a", "b", "c", "d", "e", "f", "g", "h", "i", "j", "k", "l", "m",
      "n", "o", "p", "q", "r", "s", "t", "u", "v", "w", "x", "y", "z">>
CharRank(ch) == CHOOSE i \in 1..Len(CollationOrder) : CollationOrder[i] = ch
RECURSIVE CompareFrom(_, _, _)
CompareFrom(a, b, i) ==
    IF i > Len(a) /\ i > Len(b) THEN 0
    ELSE IF i > Len(a) THEN -1
    ELSE IF i > Len(b) THEN 1
    ELSE IF CharRank(a[i]) < CharRank(b[i]) THEN -1
    ELSE IF CharRank(a[i]) > CharRank(b[i]) THEN 1
    ELSE CompareFrom(a, b, i + 1)
localeCompare(a, b) == CompareFrom(a, b, 1)

\* results.sort((a, b) => a.path.localeCompare(b.path)): a stable sort
InsertSorted(acc, e) ==
    LET before == {j \in 1..Len(acc) : localeCompare(acc[j].path, e.path) <= 0}
        k == Cardinality(before)
    IN  SubSeq(acc, 1, k) \o <<e>> \o SubSeq(acc, k + 1, Len(acc))
RECURSIVE SortFrom(_, _, _)
SortFrom(rs, i, acc) ==
    IF i > Len(rs) THEN acc ELSE SortFrom(rs, i + 1, InsertSorted(acc, rs[i]))
Unsorted(rs) == rs
SortByPath(rs) == SortFrom(rs, 1, <<>>)

(***************************************************************************)
(* Router graph walker                                                     *)
(***************************************************************************)
\* A usage is one occurrence of a router variable's name in the entry file:
\* kind "call" is name.method(args), kind "member" is name.method without a
\* call, kind "ref" is any other occurrence (declaration, export, argument).
CallUse(recv, method, args) == [recv |-> recv, kind |-> "call", method |-> method, args |-> args]
MemberUse(recv, method) == [recv |-> recv, kind |-> "member", method |-> method, args |-> <<>>]
RefUse(recv) == [recv |-> recv, kind |-> "ref", method |-> "", args |-> <<>>]

VerbsAndAll == {"get", "post", "put", "delete", "patch", "all", "on", "use"}
Verbs == {"get", "post", "put", "delete", "patch"}
toUpperCase(method) ==
    CASE method = "get" -> "GET"
      [] method = "post" -> "POST"
      [] method = "put" -> "PUT"
      [] method = "delete" -> "DELETE"
      [] method = "patch" -> "PATCH"
      [] OTHER -> method

\* identifierMap.get(routerVarName) || []
Usages(prog, routerVarName) == SelectSeq(prog.uses, LAMBDA u : u.recv = routerVarName)

IsCall(u) == u.kind = "call" /\ Len(u.args) # 0
IsRoute(u) == IsCall(u) /\ u.method \in Verbs /\ u.args[1].k = "StringLiteral"
IsMount(u) ==
    /\ IsCall(u) /\ u.method = "route" /\ Len(u.args) >= 2
    /\ u.args[1].k = "StringLiteral" /\ u.args[2].k = "Identifier"

\* the handler loop: i is the argument index as the code counts it (from 0)
RECURSIVE HandlerLoop(_, _)
\* `${analysis.reason}` and analysis.reason || "Unknown"
TemplateText(reason) == IF reason = <<>> THEN "undefined" ELSE reason[1]
OrUnknown(reason) == IF reason = <<>> \/ reason = <<"">> THEN "Unknown" ELSE reason[1]
HandlerLoopTerminalOnly(args, i) ==
    IF Len(args) < 2 \/ analyzeHandler(args[Len(args)]).isStatic
    THEN [type |-> "STATIC", failReason |-> ""]
    ELSE [type |-> "DYNAMIC", failReason |-> OrUnknown(analyzeHandler(args[Len(args)]).reason)]
HandlerStep(args, i, analysis) ==
    IF ~analysis.isStatic
    THEN [type |-> "DYNAMIC",
          failReason |->
              IF i < Len(args) - 1
              THEN "Middleware [Arg " \o ToString(i) \o "] is dynamic: " \o TemplateText(analysis.reason)
              ELSE OrUnknown(analysis.reason)]
    ELSE HandlerLoop(args, i + 1)
HandlerLoopNeedsHandler(args, i) ==
    IF Len(args) < 2 THEN [type |-> "DYNAMIC", failReason |-> "Unknown"]
    ELSE IF i >= Len(args) THEN [type |-> "STATIC", failReason |-> ""]
    ELSE HandlerStep(args, i, analyzeHandler(args[i + 1]))
HandlerLoop(args, i) ==
    IF i >= Len(args) THEN [type |-> "STATIC", failReason |-> ""]
    ELSE HandlerStep(args, i, analyzeHandler(args[i + 1]))

\* the entry pushed for name.verb(path, ...handlers) under routePrefix
EntryKeepsReason(method, fullPath, verdict) ==
    [method |-> toUpperCase(method), path |-> fullPath, type |-> verdict.type,
     reason |-> <<verdict.failReason>>]
Entry(method, fullPath, verdict) ==
    [method |-> toUpperCase(method), path |-> fullPath, type |-> verdict.type,
     reason |-> IF verdict.type = "DYNAMIC" THEN <<verdict.failReason>> ELSE <<>>]
EntryAt(fullPath, u) ==
    IF HasMarker(fullPath)
    THEN [method |-> toUpperCase(u.method), path |-> fullPath, type |-> "DYNAMIC",
          reason |-> <<"Route has params/wildcards">>]
    ELSE Entry(u.method, fullPath, HandlerLoop(u.args, 1))
RouteEntry(routePrefix, u) == EntryAt(Collapse(routePrefix \o u.args[1].t), u)

\* the root router: default export, else "app", else the first new ...Hono...
RECURSIVE HasIdentifier(_, _)
\* the names of members, bindings and functions are identifier nodes too
NamedByIdentifier ==
    {"Identifier", "PropertyAccessExpression", "PropertyAssignment", "ShorthandPropertyAssignment",
     "MethodDeclaration", "BindingElement", "FunctionDeclaration"}
HasIdentifier(n, name) ==
    \/ n.k \in NamedByIdentifier /\ n.s = name /\ ~HasComputedName(n)
    \/ \E i \in 1..Len(n.kids) : HasIdentifier(n.kids[i], name)
identifierMapHas(prog, name) ==
    \/ \E i \in 1..Len(prog.exportDefault) : HasIdentifier(prog.exportDefault[i], name)
    \/ \E i \in 1..Len(prog.stmts) : \E j \in 1..Len(prog.stmts[i]) :
           prog.stmts[i][j].name = name \/ HasIdentifier(prog.stmts[i][j].init, name)
    \/ \E i \in 1..Len(prog.uses) :
           prog.uses[i].recv = name
           \/ (prog.uses[i].kind # "ref" /\ prog.uses[i].method = name)
           \/ \E j \in 1..Len(prog.uses[i].args) : HasIdentifier(prog.uses[i].args[j], name)
IsHonoVar(d) ==
    d.init.k = "NewExpression" /\ d.init.kids[1].k = "Identifier" /\ d.init.kids[1].s \in {"Hono", "OpenAPIHono"}
\* the third heuristic stops at the first variable statement that declares a
\* router; inside that statement the last such declaration wins
SelectRootName(prog) ==
    IF prog.exportDefault # <<>> /\ prog.exportDefault[1].k = "Identifier"
    THEN <<prog.exportDefault[1].s>>
    ELSE IF identifierMapHas(prog, "app") THEN <<"app">>
    ELSE LET honoStmts == {i \in 1..Len(prog.stmts) :
                              \E j \in 1..Len(prog.stmts[i]) : IsHonoVar(prog.stmts[i][j])}
         IN  IF honoStmts = {} THEN <<>>
             ELSE LET st == prog.stmts[CHOOSE i \in honoStmts : \A k \in honoStmts : i <= k]
                      js == {j \in 1..Len(st) : IsHonoVar(st[j])}
                  IN  <<st[LastOf(js)].name>>


(***************************************************************************)
(* The analysed programs                                                   *)
(***************************************************************************)
MaxUsages == 3      \* calls on router variables in a composed program
MaxStack == 4       \* nested analyzeRouter calls the runtime's stack holds
MaxRuns == 2        \* invocations of analyzeRoutes on one project


\* the paths the programs register
Path(name) ==
    CASE name = "admin" -> <<"/", "a", "d", "m", "i", "n">>
      [] name = "dash" -> <<"/", "d", "a", "s", "h">>
      [] name = "apiV1" -> <<"/", "a", "p", "i", "/", "v", "1">>
      [] name = "users" -> <<"/", "u", "s", "e", "r", "s">>
      [] name = "list" -> <<"/", "l", "i", "s", "t">>
      [] name = "userId" -> <<"/", "u", "s", "e", "r", "/", ":", "i", "d">>
      [] name = "files" -> <<"/", "f", "i", "l", "e", "s", "/", "*">>
      [] name = "x" -> <<"/", "x">>
      [] name = "tenant" -> <<"/", ":", "t">>
      [] name = "health" -> <<"h", "e", "a", "l", "t", "h">>
      [] name = "adminTrail" -> <<"a", "d", "m", "i", "n", "/">>

C == Ident("c")
HStatic == Arrow(<<C>>, CJson(<<Obj(<<>>)>>))
HDynamic == Arrow(<<C>>, CJson(<<Obj(<<PA("t", DateNow)>>)>>))

\* names a response body may mention; ghost, process and Bun have no symbol
BodyNames ==
    {"DATA", "data", "legacy", "CFG", "cfg", "START_TIME", "version", "ver", "ALIAS",
     "LOOSE", "stamp", "pending", "VERSION", "TIME", "ext", "c", "req", "q",
     "undefined", "ghost", "config", "base", "badData", "CYC_A",
     ChainName(ChainLength - 11), ChainName(ChainLength - 10), ChainName(ChainLength - 9)}
Literals == {Str("hello"), Num("123"), TrueKw, FalseKw, NullKw, Tmpl0("simple")}
PropertyAccesses ==
    {Prop(Prop(Ident("CFG"), "meta"), "title"), Prop(Prop(Ident("cfg"), "meta"), "title"),
     Prop(Ident("CFG"), "meta"), Prop(Ident("cfg"), "meta"), Prop(Ident("CFG"), "stamp"),
     Prop(Ident("DATA"), "version"), Prop(Ident("data"), "version"),
     Prop(Ident("legacy"), "version"), Prop(Ident("CFG"), "missing"),
     Prop(Prop(Ident("c"), "req"), "url"), Prop(Ident("ghost"), "x"),
     Prop(Prop(Ident("process"), "env"), "API_KEY"),
     Prop(Prop(Ident("config"), "meta"), "title"), Prop(Ident("config"), "active"),
     Prop(Ident("badData"), "time")}
Atoms ==
    Literals \cup {Ident(n) : n \in BodyNames} \cup PropertyAccesses
    \cup {TmplExpr(<<Ident("version")>>), DateNow, MathRandom, New(Ident("Date"), <<>>),
          Binary("+", Num("1"), Num("2")),
          Node("PrefixUnaryExpression", "-", <<Num("1")>>),
          Node("ConditionalExpression", "", <<TrueKw, Num("1"), Num("2")>>),
          Call(Prop(Ident("DATA"), "map"), <<Arrow(<<Ident("x")>>, Ident("x"))>>)}
Members ==
    {PA("k", a) : a \in Atoms} \cup {Short(n) : n \in BodyNames} \cup {Spread(a) : a \in Atoms}
    \cup {PAComputed(a, Str("value")) : a \in Atoms}
    \cup {Method("m", Arrow(<<>>, Num("1")))}
\* arrays nested n deep around a literal
RECURSIVE Nest(_)
Nest(n) == IF n = 0 THEN Num("1") ELSE Arr(<<Nest(n - 1)>>)
Bodies ==
    {Obj(<<Spread(Ident("base")), PA("c", Num("3"))>>),
     Obj(<<PA("title", Prop(Prop(Ident("config"), "meta"), "title")),
           PA("isActive", Prop(Ident("config"), "active"))>>)}
    \cup {Nest(MaxDepth - 1), Nest(MaxDepth), Nest(MaxDepth + 1)} \cup
    Atoms \cup {Arr(<<a>>) : a \in Atoms} \cup {Obj(<<m>>) : m \in Members}
    \cup {Obj(<<PA("a", Num("1")), m>>) : m \in {Short("ver"), Short("version"), PA("k", Ident("data"))}}
    \cup {Arr(<<>>), Obj(<<>>), Arr(<<Num("1"), Arr(<<Ident("DATA"), Ident("data")>>)>>)}

\* statements placed before a static return
SideStatements ==
    {ExprStmt(Call(Prop(C, "header"), <<Str("X-Info"), e>>)) : e \in
        {Str("1"), DateNow, MathRandom, New(Ident("Date"), <<>>),
         Prop(Prop(Ident("process"), "env"), "API_KEY"),
         Prop(Prop(Ident("Bun"), "env"), "API_KEY"),
         Prop(Prop(Ident("bun"), "env"), "API_KEY"),
         Ident("ghost"), Ident("version"),
         Prop(Prop(C, "req"), "url"), ElemAccess(C, Str("req")), Prop(C, "var")}}
    \cup {VarStmt(VarDeclNode("const", ObjPattern(names), C)) :
            names \in {<<"req">>, <<"json">>, <<"env", "json">>, <<"req", "env">>}}
    \cup {VarStmt(VarDeclNode("const", Ident("q"), Call(Prop(Prop(C, "req"), "query"), <<Str("q")>>))),
          VarStmt(VarDeclNode("const", Ident("ctx"), C)),
          VarStmt(VarDeclNode("let", Ident("pending"), Missing))}

\* block bodies with several return paths
ReturnPathHandlers ==
    {Arrow(<<C>>, Block(<<If(TrueKw, Block(<<first>>)), second>>)) :
        first \in {Return(CJson(<<Ident("data")>>)), Return(Ident("DATA")), Return(CJson(<<Str("a")>>)),
                   ReturnVoid},
        second \in {Return(CJson(<<Ident("ver")>>)), Return(Num("1")), Return(CJson(<<Str("b")>>)),
                    ReturnVoid}}
    \cup {Arrow(<<C>>, Block(<<If(TrueKw, Block(<<Return(CJson(<<Str("a")>>))>>))>>)),
          Arrow(<<C>>, Block(<<ExprStmt(Arrow(<<>>, Block(<<Return(CJson(<<Str("a")>>))>>)))>>)),
          Arrow(<<C>>, Block(<<ExprStmt(FnExpr(<<>>, Block(<<Return(Ident("data"))>>))),
                               Return(CJson(<<Str("a")>>))>>)),
          Arrow(<<C>>, Block(<<ExprStmt(Call(Prop(C, "status"), <<Num("200")>>))>>))}
OtherHandlers ==
    ReturnPathHandlers \cup
    {Ident("getInfo"), Ident("getTime"), Ident("localStatus"), Ident("localTime"),
     Ident("getStatus"), Ident("auth"), Ident("log"), Ident("h1"), Ident("ext"), Ident("ghost"),
     Ident("DATA"), Ident("c"), Ident("pending"), Str("handler"),
     Arrow(<<C>>, CJson(<<>>)),
     Arrow(<<C>>, Call(Prop(C, "text"), <<Str("Just text")>>)),
     Arrow(<<C>>, Call(Prop(C, "html"), <<Str("Math.")>>)),
     Arrow(<<C>>, Call(Prop(Call(Prop(C, "status"), <<Num("200")>>), "json"), <<Obj(<<PA("msg", Str("ok"))>>)>>)),
     Arrow(<<C>>, Call(Prop(C, "body"), <<Str("raw")>>)),
     Arrow(<<C>>, Await(CJson(<<>>))),
     Arrow(<<C>>, Block(<<>>)),
     Arrow(<<C>>, Block(<<ReturnVoid>>)),
     Arrow(<<C>>, Block(<<If(TrueKw, Block(<<Return(CJson(<<Ident("data")>>))>>)), Return(Ident("DATA"))>>)),
     Arrow(<<C>>, Block(<<ExprStmt(Arrow(<<>>, Block(<<Return(Num("1"))>>))), Return(CJson(<<>>))>>)),
     Arrow(<<ObjPattern(<<"req", "json">>)>>, Call(Prop(Ident("req"), "json"), <<>>)),
     Arrow(<<>>, Call(Prop(Ident("res"), "json"), <<Str("x")>>)),
     FnExpr(<<C>>, Block(<<Return(CJson(<<Ident("VERSION")>>))>>)),
     Arrow(<<C, Ident("n")>>, Block(<<ExprStmt(Await(Call(Ident("n"), <<>>))), Return(CJson(<<Obj(<<>>)>>))>>)),
     Arrow(<<C, Ident("next")>>, Block(<<ExprStmt(Await(Call(Ident("next"), <<>>))), Return(CJson(<<Obj(<<>>)>>))>>)),
     Arrow(<<C, Ident("next")>>, Await(Call(Ident("next"), <<>>))),
     Arrow(<<C>>, Block(<<VarStmt(VarDeclNode("let", Ident("ctx"), Missing)),
                         ExprStmt(Binary("=", Ident("ctx"), C)),
                         ExprStmt(Call(Prop(Ident("ctx"), "header"),
                                       <<Str("X-Info"), Prop(Prop(Ident("ctx"), "req"), "url")>>)),
                         Return(CJson(<<Obj(<<>>)>>))>>)),
     FnExpr(<<C>>, Missing)}
Handlers ==
    {Arrow(<<C>>, CJson(<<b>>)) : b \in Bodies}
    \cup {Arrow(<<C>>, Block(<<st, Return(CJson(<<Obj(<<>>)>>))>>)) : st \in SideStatements}
    \cup {Arrow(<<C>>, Block(<<Return(CJson(<<b>>))>>)) : b \in Literals \cup PropertyAccesses}
    \cup OtherHandlers

RouterDecl(name) == [name |-> name, init |-> HonoNew]
Program(uses) ==
    [entryExists |-> TRUE, tsconfigExists |-> TRUE,
     exportDefault |-> <<Ident("app")>>,
     stmts |-> <<<<RouterDecl("app")>>, <<RouterDecl("admin")>>, <<RouterDecl("v1")>>, <<RouterDecl("users")>>>>,
     uses |-> uses]

\* calls a composed program is made of
WalkUses ==
    {CallUse("app", "route", <<PathLit(Path("admin")), Ident("admin")>>),
     CallUse("admin", "get", <<PathLit(Path("dash")), HStatic>>),
     CallUse("app", "route", <<PathLit(Path("apiV1")), Ident("v1")>>),
     CallUse("v1", "route", <<PathLit(Path("users")), Ident("users")>>),
     CallUse("users", "get", <<PathLit(Path("list")), HStatic>>),
     CallUse("app", "get", <<PathLit(Path("health")), HStatic>>),
     CallUse("app", "get", <<PathLit(Path("admin") \o Path("dash")), HDynamic>>),
     CallUse("app", "route", <<PathLit(Path("adminTrail")), Ident("admin")>>),
     CallUse("app", "route", <<PathLit(Path("tenant")), Ident("admin")>>),
     CallUse("admin", "post", <<PathLit(Path("files")), HStatic>>),
     CallUse("admin", "route", <<PathLit(Path("x")), Ident("admin")>>),
     CallUse("app", "use", <<Ident("auth")>>)}
RECURSIVE SeqsUpTo(_, _)
Extend(shorter, S) == shorter \cup {Append(q, x) : q \in shorter, x \in S}
SeqsUpTo(S, n) == IF n = 0 THEN {<<>>} ELSE Extend(SeqsUpTo(S, n - 1), S)
WalkPrograms == {Program(uses) : uses \in SeqsUpTo(WalkUses, MaxUsages)}

\* programs with one registration, over every handler
HandlerLists ==
    {<<>>} \cup {<<h>> : h \in Handlers}
    \cup {<<m, h>> : m \in {Ident("auth"), HStatic, HDynamic}, h \in {HStatic, HDynamic, Ident("ghost")}}
    \cup {<<HStatic, Ident("log"), HStatic>>}
SingleRoutePrograms ==
    {Program(<<CallUse("app", "get", <<PathLit(Path("x"))>> \o hs)>>) : hs \in HandlerLists}
    \cup {Program(<<CallUse("app", v, <<PathLit(pth), h>>)>>) :
            v \in {"get", "post", "put", "delete", "patch", "all", "on"},
            pth \in {Path("userId"), Path("files"), <<>>, <<"/", "/", "x">>},
            h \in {HStatic, HDynamic}}
    \cup {Program(<<CallUse("app", "get", <<Tmpl0("path"), HStatic>>)>>),
          Program(<<CallUse("app", "get", <<>>)>>),
          Program(<<MemberUse("app", "fetch")>>),
          Program(<<RefUse("app"), CallUse("app", "get", <<PathLit(Path("x")), HStatic>>)>>),
          Program(<<CallUse("app", "route", <<PathLit(Path("x")), Ident("ghost")>>)>>),
          Program(<<CallUse("app", "route", <<PathLit(Path("x"))>>)>>),
          Program(<<CallUse("app", "route", <<PathLit(Path("x")), Call(Ident("make"), <<>>)>>)>>),
          Program(<<CallUse("app", "route", <<Ident("prefix"), Ident("admin")>>)>>)}
\* entry files that differ in what names the root router
RootPrograms ==
    LET Other == New(Ident("Server"), <<>>)
        RootUses ==
            <<CallUse("app", "get", <<PathLit(Path("x")), HStatic>>),
              CallUse("api", "get", <<PathLit(Path("list")), HStatic>>),
              CallUse("admin", "get", <<PathLit(Path("dash")), HStatic>>)>>
        RootExports ==
            {<<>>, <<Ident("app")>>, <<Ident("api")>>, <<Ident("admin")>>,
             <<Obj(<<PA("fetch", Prop(Ident("api"), "fetch"))>>)>>,
             <<Obj(<<PA("app", Ident("api"))>>)>>}
        RootStatements ==
            {<<<<RouterDecl("app")>>, <<RouterDecl("api")>>, <<RouterDecl("admin")>>>>,
             <<<<RouterDecl("api")>>, <<RouterDecl("app")>>>>,
             <<<<RouterDecl("api")>>, <<RouterDecl("admin")>>>>,
             <<<<RouterDecl("admin")>>, <<RouterDecl("api")>>>>,
             <<<<RouterDecl("api"), RouterDecl("admin")>>>>,
             <<<<[name |-> "server", init |-> Other]>>, <<RouterDecl("admin")>>, <<RouterDecl("api")>>>>,
             <<<<[name |-> "server", init |-> Other], RouterDecl("api")>>, <<RouterDecl("admin")>>>>,
             <<<<[name |-> "api", init |-> New(Ident("OpenAPIHono"), <<>>)]>>>>,
             <<<<[name |-> "server", init |-> Other]>>>>,
             <<>>}
    IN  {[entryExists |-> TRUE, tsconfigExists |-> TRUE, exportDefault |-> e, stmts |-> st,
          uses |-> SelectSeq(RootUses, LAMBDA u : \E i \in 1..Len(st) : \E j \in 1..Len(st[i]) :
                                                     st[i][j].name = u.recv)] :
            e \in RootExports, st \in RootStatements}

\* projects without server/index.ts, with and without a tsconfig.json
NoEntryProjects ==
    {[entryExists |-> FALSE, tsconfigExists |-> t, exportDefault |-> <<>>, stmts |-> <<>>, uses |-> <<>>] :
        t \in BOOLEAN}
\* programs that mount what is no router: an undeclared name, a call, a router
\* without registrations
MountPrograms ==
    {Program(uses) : uses \in SeqsUpTo(
        {CallUse("app", "route", <<PathLit(Path("x")), Ident("ghost")>>),
         CallUse("app", "route", <<PathLit(Path("x")), Call(Ident("make"), <<>>)>>),
         CallUse("app", "route", <<PathLit(Path("admin")), Ident("admin")>>),
         CallUse("admin", "route", <<PathLit(Path("users")), Ident("users")>>),
         CallUse("admin", "get", <<PathLit(Path("dash")), HStatic>>),
         CallUse("app", "get", <<PathLit(Path("health")), HDynamic>>)}, MaxUsages)}
Programs ==
    WalkPrograms \cup SingleRoutePrograms \cup RootPrograms \cup NoEntryProjects \cup MountPrograms

(***************************************************************************)
(* analyzeRoutes as a state machine                                        *)
(***************************************************************************)
Frame(name, prefix) == [routerVarName |-> name, routePrefix |-> prefix, i |-> 1]
Top == stack[Len(stack)]
TopUsages == Usages(program, Top.routerVarName)
Current == TopUsages[Top.i]
Advance(st) == [st EXCEPT ![Len(st)].i = @ + 1]

\* results.push(entry)
PushUnique(rs, e) ==
    IF \E j \in 1..Len(rs) : rs[j].method = e.method /\ rs[j].path = e.path THEN rs ELSE Append(rs, e)
Push(rs, e) == Append(rs, e)

\* analyzeRouter(subAppNode.text, newPrefix): the router that is walked
MountedNameGuessed(u) == IF u.args[2].s = "ghost" THEN "admin" ELSE u.args[2].s
MountedName(u) == u.args[2].s

\* the prefix a mounted router is walked with
NewPrefixDropsParent(routePrefix, u) == Collapse(u.args[1].t)
NewPrefix(routePrefix, u) == Collapse(routePrefix \o u.args[1].t)

Init ==
    /\ program \in Programs
    /\ pc = "start"
    /\ rootRouterName = <<>>
    /\ stack = <<>>
    /\ results = <<>>
    /\ console = <<>>
    /\ run = 1
    /\ previous = <<>>
    /\ output = <<>>

\* an analyzer that reads tsconfig.json before it looks for the entry file
ReturnEmptyThrows ==
    /\ pc = "start"
    /\ ~program.entryExists
    /\ IF program.tsconfigExists
       THEN console' = Append(console, "warn") /\ pc' = "done"
       ELSE console' = console /\ pc' = "crashed"
    /\ results' = <<>>
    /\ UNCHANGED <<program, rootRouterName, stack, run, previous, output>>
\* the entry file is missing: warn and return []
ReturnEmpty ==
    /\ pc = "start"
    /\ ~program.entryExists
    /\ console' = Append(console, "warn")
    /\ results' = <<>>
    /\ pc' = "done"
    /\ UNCHANGED <<program, rootRouterName, stack, run, previous, output>>

\* 4. Start Analysis: pick the root router and call analyzeRouter on it
SelectRoot ==
    /\ pc = "start"
    /\ rootRouterName' = SelectRootName(program)
    /\ IF rootRouterName' # <<>>
       THEN stack' = <<Frame(rootRouterName'[1], <<>>)>> /\ pc' = "walk"
       ELSE stack' = <<>> /\ pc' = "sort"
    /\ program.entryExists
    /\ UNCHANGED <<program, results, console, run, previous, output>>

\* a usage that is neither a route registration nor a mount
SkipUsage ==
    /\ pc = "walk" /\ Top.i <= Len(TopUsages)
    /\ ~IsRoute(Current) /\ ~IsMount(Current)
    /\ stack' = Advance(stack)
    /\ UNCHANGED <<program, pc, rootRouterName, results, console, run, previous, output>>

\* A. Handle Routes
VisitRoute ==
    /\ pc = "walk" /\ Top.i <= Len(TopUsages)
    /\ IsRoute(Current)
    /\ results' = Push(results, RouteEntry(Top.routePrefix, Current))
    /\ stack' = Advance(stack)
    /\ UNCHANGED <<program, pc, rootRouterName, console, run, previous, output>>

\* B. Handle Sub-Routers: the recursive call
VisitMount ==
    /\ pc = "walk" /\ Top.i <= Len(TopUsages)
    /\ IsMount(Current)
    /\ Len(stack) < MaxStack
    /\ stack' = Append(stack, Frame(MountedName(Current), NewPrefix(Top.routePrefix, Current)))
    /\ UNCHANGED <<program, pc, rootRouterName, results, console, run, previous, output>>

\* the recursion exceeds the call stack: analyzeRoutes throws
StackOverflow ==
    /\ pc = "walk" /\ Top.i <= Len(TopUsages)
    /\ IsMount(Current)
    /\ Len(stack) >= MaxStack
    /\ pc' = "crashed"
    /\ UNCHANGED <<program, rootRouterName, stack, results, console, run, previous, output>>

\* the loop over the usages ends: analyzeRouter returns to its caller
ReturnFromRouter ==
    /\ pc = "walk" /\ Top.i > Len(TopUsages)
    /\ IF Len(stack) = 1
       THEN stack' = <<>> /\ pc' = "sort"
       ELSE stack' = Advance(SubSeq(stack, 1, Len(stack) - 1)) /\ pc' = pc
    /\ UNCHANGED <<program, rootRouterName, results, console, run, previous, output>>

\* return results.sort(...)
SortResults ==
    /\ pc = "sort"
    /\ results' = SortByPath(results)
    /\ pc' = "done"
    /\ UNCHANGED <<program, rootRouterName, stack, console, run, previous, output>>

\* the caller invokes analyzeRoutes again on the unchanged project: results,
\* identifierMap and rootRouterName are locals of the new invocation
KeepResults(old) == old
NewResults(old) == <<>>
Rerun ==
    /\ pc = "done" /\ run < MaxRuns
    /\ previous' = <<results>>
    /\ run' = run + 1
    /\ results' = NewResults(results)
    /\ rootRouterName' = <<>>
    /\ stack' = <<>>
    /\ pc' = "start"
    /\ UNCHANGED <<program, console, output>>

Next ==
    \/ ReturnEmpty
    \/ SelectRoot
    \/ SkipUsage
    \/ VisitRoute
    \/ VisitMount
    \/ StackOverflow
    \/ ReturnFromRouter
    \/ SortResults

Spec == Init /\ [][Next]_vars

\* the same, invoked up to MaxRuns times
NextRerun == Next \/ Rerun
SpecRerun == Init /\ [][NextRerun]_vars

(***************************************************************************)
(* The Vercel build: route configuration with static optimisation          *)
(***************************************************************************)
\* one element of the routes array of config.json; <<>> is an absent field
Rule(src, dest, headers, continue, handle) ==
    [src |-> src, dest |-> dest, headers |-> headers, continue |-> continue, handle |-> handle]
\* analyzed.filter((r) => r.type === "STATIC").map((route) => ({ src, headers, continue }))
CacheRule(route) ==
    Rule(<<<<"^", "/", "a", "p", "i">> \o (IF route.path = <<"/">> THEN <<>> ELSE route.path) \o <<"$">>>>,
         <<>>, <<"public, max-age=0, s-maxage=43200, stale-while-revalidate=600">>, <<TRUE>>, <<>>)
staticCacheRoutesOfAll(analyzed) == [i \in 1..Len(analyzed) |-> CacheRule(analyzed[i])]
staticCacheRoutes(analyzed) ==
    [i \in 1..Len(SelectSeq(analyzed, LAMBDA r : r.type = "STATIC")) |->
        CacheRule(SelectSeq(analyzed, LAMBDA r : r.type = "STATIC")[i])]
\* routes: [...staticCacheRoutes, { src: "/api/(.*)", dest: "/api" }, { handle: "filesystem" }, ...]
globalConfig(cache) ==
    [version |-> 3,
     routes |-> cache \o
         <<Rule(<<<<"/", "a", "p", "i", "/", "(", ".", "*", ")">>>>, <<"/api">>, <<>>, <<>>, <<>>),
           Rule(<<>>, <<>>, <<>>, <<>>, <<"filesystem">>),
           Rule(<<<<"/", "(", ".", "*", ")">>>>, <<"/index.html">>, <<>>, <<>>, <<>>)>>]

\* build({ isVercel: true, static: isStaticArg }) from "3. Generate Route
\* Config" on: with isStaticArg the analysis has returned or thrown, without
\* it the analysis is never called
build ==
    /\ output = <<>>
    /\ \E isStaticArg \in BOOLEAN :
           IF isStaticArg
           THEN /\ pc \in {"done", "crashed"}
                /\ console' = IF pc = "crashed" THEN Append(console, "error") ELSE console
                /\ output' = <<[static |-> TRUE,
                                config |-> globalConfig(IF pc = "crashed" THEN <<>>
                                                        ELSE staticCacheRoutes(results))]>>
           ELSE /\ pc = "start"
                /\ console' = console
                /\ output' = <<[static |-> FALSE, config |-> globalConfig(<<>>)]>>
    /\ pc' = "built"
    /\ UNCHANGED <<program, rootRouterName, stack, results, run, previous>>

NextBuild == Next \/ build
SpecBuild == Init /\ [][NextBuild]_vars

(***************************************************************************)
(* Vocabulary of the properties                                            *)
(***************************************************************************)
\* the walk has just pushed the entry of the registration Visited
JustVisited ==
    pc = "walk" /\ stack # <<>> /\ Top.i > 1 /\ IsRoute(TopUsages[Top.i - 1])
Visited == TopUsages[Top.i - 1]
LastEntry == results[Len(results)]

\* a path with every run of "/" reduced to one "/": the characters that do
\* not follow a "/" while being one, in their order
IsKept(p, i) == ~(p[i] = "/" /\ i > 1 /\ p[i - 1] = "/")
PathText(q) == [i \in 1..Len(q) |-> q[i][2]]
Squash(p) == PathText(SelectSeq([i \in 1..Len(p) |-> <<i, p[i]>>], LAMBDA c : IsKept(p, c[1])))
MentionsMarker(p) == \E i \in 1..Len(p) : p[i] \in {":", "*"}

\* the prefixes, as written, of the mounts that enclose frame k
RECURSIVE RawPrefix(_)
RawPrefix(k) ==
    IF k <= 1 THEN <<>>
    ELSE RawPrefix(k - 1) \o Usages(program, stack[k - 1].routerVarName)[stack[k - 1].i].args[1].t

\* the (method, path) pairs of the registrations reached from the root router,
\* in the order the walk reaches them
RECURSIVE ReachedFrom(_, _, _, _, _)
ReachedAt(prog, u, rawPrefix, fuel) ==
    IF IsRoute(u)
    THEN <<[method |-> toUpperCase(u.method), path |-> Squash(rawPrefix \o u.args[1].t)]>>
    ELSE IF IsMount(u) /\ fuel > 0
    THEN ReachedFrom(prog, Usages(prog, u.args[2].s), 1, rawPrefix \o u.args[1].t, fuel - 1)
    ELSE <<>>
ReachedFrom(prog, us, i, rawPrefix, fuel) ==
    IF i > Len(us) THEN <<>>
    ELSE ReachedAt(prog, us[i], rawPrefix, fuel) \o ReachedFrom(prog, us, i + 1, rawPrefix, fuel)
Reached ==
    IF rootRouterName = <<>> THEN <<>>
    ELSE ReachedFrom(program, Usages(program, rootRouterName[1]), 1, <<>>, MaxStack)
PairOf(e) == [method |-> e.method, path |-> e.path]
Occurrences(q, pair) ==
    Cardinality({i \in 1..Len(q) : q[i].method = pair.method /\ q[i].path = pair.path})
HasDuplicatePair(q) ==
    \E i, j \in 1..Len(q) : i < j /\ q[i].method = q[j].method /\ q[i].path = q[j].path

\* the response body of a registration app.verb(path, (c) => c.json(body))
IsJsonRoute(u) ==
    /\ Len(u.args) = 2 /\ u.args[2].k = "ArrowFunction" /\ Len(u.args[2].kids) = 2
    /\ u.args[2].kids[1] = C /\ u.args[2].kids[2].k = "CallExpression"
    /\ Len(u.args[2].kids[2].kids) = 2 /\ u.args[2].kids[2].kids[1] = Prop(C, "json")
    /\ ~MentionsMarker(u.args[1].t)
JsonBody(u) == u.args[2].kids[2].kids[2]

\* the binding a name refers to is a single-assignment variable
IsLocked(name) ==
    /\ IdentSymbol(name) # <<>>
    /\ IsTraceable(getDeclaration(IdentSymbol(name)[1]))
    /\ getDeclaration(IdentSymbol(name)[1])[1].flags = "const"
InitializerOf(name) == getDeclaration(IdentSymbol(name)[1])[1].init[1]
RECURSIVE BaseName(_)
BaseName(e) == IF e.k = "PropertyAccessExpression" THEN BaseName(e.kids[1]) ELSE e.s

\* what a handler refers to, whatever the analyzer looks at
IsDynamicGlobalUse(n) ==
    \/ n.k = "CallExpression" /\ n.kids[1] = Prop(Ident("Date"), "now")
    \/ n.k = "NewExpression" /\ n.kids[1] = Ident("Date")
    \/ n.k = "PropertyAccessExpression" /\ n.kids[1] = Ident("Math")
    \/ n.k = "PropertyAccessExpression" /\ n.s = "env" /\ n.kids[1] \in {Ident("process"), Ident("Bun")}
IsUnresolvableUse(n) ==
    /\ n.k = "Identifier" /\ n.s # "undefined"
    /\ (IdentSymbol(n.s) = <<>> \/ getDeclaration(IdentSymbol(n.s)[1]) = <<>>)
IsContextMemberUse(n) ==
    \/ n.k = "PropertyAccessExpression" /\ n.kids[1] = C /\ n.s \notin Allowed
    \/ n.k = "ElementAccessExpression" /\ n.kids[1] = C /\ n.kids[2].k = "StringLiteral"
       /\ n.kids[2].s \notin Allowed
    \/ n.k = "VariableDeclaration" /\ n.kids[2] = C /\ n.kids[1].k = "ObjectBindingPattern"
       /\ \E i \in 1..Len(n.kids[1].kids) : n.kids[1].kids[i].s \notin Allowed
IsImpureUse(n) == IsDynamicGlobalUse(n) \/ IsUnresolvableUse(n) \/ IsContextMemberUse(n)
RECURSIVE ContainsImpureUse(_)
ContainsImpureUse(n) == IsImpureUse(n) \/ \E i \in 1..Len(n.kids) : ContainsImpureUse(n.kids[i])
RefersToImpure(handler) ==
    /\ handler.k \in {"ArrowFunction", "FunctionExpression", "Identifier"}
    /\ ContainsImpureUse(handler)

(***************************************************************************)
(* Properties                                                              *)
(***************************************************************************)

\* C1: a registration with a handler argument that refers to a context member
\* outside the allow-list, to a dynamic global (clock, random source,
\* environment) or to an unresolvable binding gets an entry of type DYNAMIC.
C1_ImpureHandlerIsDynamic ==
    JustVisited /\ (\E j \in 2..Len(Visited.args) : RefersToImpure(Visited.args[j]))
        => LastEntry.type = "DYNAMIC"

\* C2: a registration whose full path (the enclosing mount prefixes and the
\* local path) holds ":" or "*" gets the entry DYNAMIC with the reason "Route
\* has params/wildcards", whatever its handler arguments are.
C2_MarkedPathIsDynamic ==
    JustVisited /\ MentionsMarker(RawPrefix(Len(stack)) \o Visited.args[1].t)
        => LastEntry = [method |-> toUpperCase(Visited.method),
                        path |-> Squash(RawPrefix(Len(stack)) \o Visited.args[1].t),
                        type |-> "DYNAMIC", reason |-> <<"Route has params/wildcards">>]
C2_Witness ==
    /\ JustVisited /\ MentionsMarker(Visited.args[1].t)
    /\ Len(Visited.args) = 2 /\ analyzeHandler(Visited.args[2]).isStatic
    /\ LastEntry.type = "DYNAMIC"

IdentifierAsExpected(name, depth) ==
    \/ name = "undefined"
    \/ IsLocked(name) /\ isDeeplyStatic(InitializerOf(name), depth + 1)
C4_ShorthandNeedsConst ==
    JustVisited /\ IsJsonRoute(Visited) /\ JsonBody(Visited).k = "ObjectLiteralExpression"
    /\ Len(JsonBody(Visited).kids) = 1 /\ JsonBody(Visited).kids[1].k = "ShorthandPropertyAssignment"
        => (LastEntry.type = "STATIC"
              => IsLocked(JsonBody(Visited).kids[1].s)
                 /\ isDeeplyStatic(InitializerOf(JsonBody(Visited).kids[1].s), 2))

\* C5: a route returning c.json(a.b.c) is STATIC only if the base a is a const
\* binding.
C5_PropertyAccessNeedsConstBase ==
    JustVisited /\ IsJsonRoute(Visited) /\ JsonBody(Visited).k = "PropertyAccessExpression"
        => (LastEntry.type = "STATIC" => IsLocked(BaseName(JsonBody(Visited))))

\* C6: the prefix of every active walk and the path of every entry is the
\* concatenation of the enclosing mount prefixes, outermost first, and the
\* local path, with every run of "/" reduced to one; /admin with /dash gives
\* the single entry /admin/dash, and /api/v1, /users, /list give
\* /api/v1/users/list.
C6_PathIsSquashedConcatenation ==
    /\ \A k \in 1..Len(stack) : stack[k].routePrefix = Squash(RawPrefix(k))
    /\ JustVisited => LastEntry.path = Squash(RawPrefix(Len(stack)) \o Visited.args[1].t)
    /\ pc = "done"
       /\ program.uses = <<CallUse("app", "route", <<PathLit(Path("admin")), Ident("admin")>>),
                           CallUse("admin", "get", <<PathLit(Path("dash")), HStatic>>)>>
         => Len(results) = 1 /\ results[1].path = (Path("admin") \o Path("dash"))
    /\ pc = "done"
       /\ program.uses = <<CallUse("users", "get", <<PathLit(Path("list")), HStatic>>),
                           CallUse("v1", "route", <<PathLit(Path("users")), Ident("users")>>),
                           CallUse("app", "route", <<PathLit(Path("apiV1")), Ident("v1")>>)>>
         => Len(results) = 1 /\ results[1].path = (Path("apiV1") \o Path("users") \o Path("list"))
C6_Witness ==
    pc = "done" /\ \E i \in 1..Len(results) : results[i].path = (Path("apiV1") \o Path("users") \o Path("list"))

\* C7: the path of every entry starts with "/".
C7_PathStartsWithSlash ==
    \A i \in 1..Len(results) : results[i].path # <<>> /\ results[i].path[1] = "/"

\* C8 as claimed: no two entries have the same (method, path) pair.
C8_NoDuplicatePair == ~HasDuplicatePair(results)
\* C8 amended: in the returned list a (method, path) pair occurs exactly as
\* often as the walk reaches a registration of it, so the entries are unique
\* exactly when no pair is reached twice.
SamePairs(q, reached) ==
    /\ \A i \in 1..Len(reached) : Occurrences(q, reached[i]) = Occurrences(reached, reached[i])
    /\ \A i \in 1..Len(q) : Occurrences(reached, PairOf(q[i])) > 0
    /\ HasDuplicatePair(q) <=> HasDuplicatePair(reached)
C8_OneEntryPerReachedRegistration == pc = "done" => SamePairs(results, Reached)
C8_Witness == pc = "done" /\ HasDuplicatePair(results)

\* C9: the walk only appends to the list, and the final step returns the
\* appended entries, none removed or changed, ordered by path.
IsPermutation(a, b) ==
    /\ Len(a) = Len(b)
    /\ \A i \in 1..Len(a) :
           Cardinality({j \in 1..Len(a) : a[j] = a[i]}) = Cardinality({j \in 1..Len(b) : b[j] = a[i]})
IsOrderedByPath(q) ==
    \A i \in 1..Len(q) - 1 : localeCompare(q[i].path, q[i + 1].path) <= 0
C9_ReturnsAppendedEntriesOrdered ==
    [][/\ pc = "walk" => (results' = results
                          \/ (Len(results') = Len(results) + 1
                              /\ SubSeq(results', 1, Len(results)) = results))
       /\ pc = "sort" => IsPermutation(results, results') /\ IsOrderedByPath(results')
       /\ pc \in {"done", "crashed"} => results' = results]_vars
C9_Witness ==
    /\ pc = "done" /\ Len(results) >= 2
    /\ [i \in 1..Len(results) |-> PairOf(results[i])] # Reached

\* C10: an entry has a reason, a text that is not empty, if and only if its
\* type is DYNAMIC.
C10_ReasonIffDynamic ==
    \A i \in 1..Len(results) :
        /\ results[i].type \in {"STATIC", "DYNAMIC"}
        /\ results[i].type = "DYNAMIC" <=> results[i].reason # <<>>
        /\ results[i].reason # <<>> => results[i].reason[1] # ""
C10_Witness ==
    /\ pc = "done"
    /\ \E i, j \in 1..Len(results) : results[i].type = "STATIC" /\ results[j].type = "DYNAMIC"


\* C11 as claimed: a route is STATIC if and only if every handler argument is
\* static; otherwise its reason is that of the first handler that is not,
\* prefixed "Middleware [Arg i] is dynamic: " unless that handler is the last
\* argument.
HandlerIsStatic(u, j) == analyzeHandler(u.args[j]).isStatic
AllHandlersStatic(u) == \A j \in 2..Len(u.args) : HandlerIsStatic(u, j)
FirstDynamic(u) ==
    CHOOSE j \in 2..Len(u.args) : ~HandlerIsStatic(u, j) /\ \A k \in 2..(j - 1) : HandlerIsStatic(u, k)
ReasonOfHandler(u, j) ==
    IF j < Len(u.args)
    THEN "Middleware [Arg " \o ToString(j - 1) \o "] is dynamic: " \o analyzeHandler(u.args[j]).reason[1]
    ELSE analyzeHandler(u.args[j]).reason[1]
VerdictOfHandlers(u, entry) ==
    IF AllHandlersStatic(u) THEN entry.type = "STATIC" /\ entry.reason = <<>>
    ELSE entry.type = "DYNAMIC" /\ entry.reason = <<ReasonOfHandler(u, FirstDynamic(u))>>
C12_MountCycleTerminates == pc # "crashed"

\* ---------------------------------------------------------------------------
\* C13: isDeeplyStatic ends for every expression and answers false at every
\* depth above the maximum: a response body whose value is nested deeper than
\* the maximum, or is reached only through a cycle of initializers
\* (const a = b; const b = a), is never classified static.
\*
\* the nesting of a value: a literal is at level 0, a container one above its
\* deepest element, a name one above the initializer it stands for; levels
\* beyond MaxDepth + 1 (an endless cycle among them) count as MaxDepth + 1
RECURSIVE Height(_, _)
Highest(S) == IF S = {} THEN 0 ELSE CHOOSE h \in S : \A g \in S : g <= h
Above(e, fuel) == IF fuel = 0 THEN 0 ELSE 1 + Height(e, fuel - 1)
InitializerHeight(decl, fuel) ==
    IF decl # <<>> /\ decl[1].init # <<>> THEN Above(decl[1].init[1], fuel) ELSE 0
MemberHeight(p, fuel) ==
    IF p.k = "SpreadAssignment" THEN Above(p.kids[1], fuel)
    ELSE IF p.k = "PropertyAssignment" THEN Above(Initializer(p), fuel)
    ELSE IF p.k = "ShorthandPropertyAssignment"
         THEN InitializerHeight(getDeclarationOpt(IdentSymbol(p.s)), fuel)
    ELSE 0
Height(e, fuel) ==
    IF e.k = "ArrayLiteralExpression"
    THEN Highest({Above(e.kids[i], fuel) : i \in 1..Len(e.kids)})
    ELSE IF e.k = "ObjectLiteralExpression"
    THEN Highest({MemberHeight(e.kids[i], fuel) : i \in 1..Len(e.kids)})
    ELSE IF e.k \in {"Identifier", "PropertyAccessExpression"}
    THEN InitializerHeight(getDeclarationOpt(getSymbolAtLocation(e)), fuel)
    ELSE 0
IsTooDeep(e) == Height(e, MaxDepth + 1) > MaxDepth
NeverStaticBeyond(e) == \A d \in (MaxDepth + 1)..(MaxDepth + 3) : ~isDeeplyStatic(e, d)
DeepIsDynamic(body, entry) ==
    /\ NeverStaticBeyond(body)
    /\ IsTooDeep(body) => entry.type = "DYNAMIC" /\ entry.reason = <<"Response body has variables">>
C13_BeyondMaxDepthIsNotStatic ==
    JustVisited /\ IsJsonRoute(Visited) /\ ~MentionsMarker(Visited.args[1].t)
        => DeepIsDynamic(JsonBody(Visited), LastEntry)
\* a route answering a constant of a two-element cycle has been classified
\* DYNAMIC
C13_Witness ==
    /\ JustVisited /\ IsJsonRoute(Visited)
    /\ JsonBody(Visited) = Ident("CYC_A")
    /\ IsTooDeep(JsonBody(Visited))
    /\ LastEntry.type = "DYNAMIC"

\* ---------------------------------------------------------------------------
\* C14: a second invocation of analyzeRoutes on the unchanged project returns
\* a list equal to the first one, element by element and in the same order.
SameList(first, second) ==
    Len(first) = Len(second) /\ \A i \in 1..Len(first) : first[i] = second[i]
HasReturned == pc = "done"
C15_MissingEntryReturnsEmpty ==
    ~program.entryExists /\ pc # "start"
        => HasReturned /\ results = <<>> /\ console = <<"warn">>
C15_Witness ==
    /\ ~program.entryExists /\ ~program.tsconfigExists
    /\ HasReturned /\ results = <<>> /\ console = <<"warn">>

\* ---------------------------------------------------------------------------
\* C16: the root router is the identifier of the default export; otherwise
\* the binding named app; otherwise the first variable of the entry file, in
\* source order, that is initialised with new Hono.  A later rule applies only
\* when every earlier one finds nothing.
DeclaresName(prog, name) ==
    \E i \in 1..Len(prog.stmts) : \E j \in 1..Len(prog.stmts[i]) : prog.stmts[i][j].name = name
HonoVarPositions(prog) ==
    {ij \in UNION {{<<i, j>> : j \in 1..Len(prog.stmts[i])} : i \in 1..Len(prog.stmts)} :
        IsHonoVar(prog.stmts[ij[1]][ij[2]])}
IsBefore(a, b) == a[1] < b[1] \/ (a[1] = b[1] /\ a[2] <= b[2])
FirstPosition(S) == CHOOSE a \in S : \A b \in S : IsBefore(a, b)
NameAt(prog, ij) == prog.stmts[ij[1]][ij[2]].name
FirstHonoVar(prog, S) == IF S = {} THEN <<>> ELSE <<NameAt(prog, FirstPosition(S))>>
ExpectedRoot(prog) ==
    IF prog.exportDefault # <<>> /\ prog.exportDefault[1].k = "Identifier"
    THEN <<prog.exportDefault[1].s>>
    ELSE IF DeclaresName(prog, "app") THEN <<"app">>
    ELSE FirstHonoVar(prog, HonoVarPositions(prog))
C16_RootByThreeHeuristicsInOrder ==
    program.entryExists /\ pc # "start" => rootRouterName = ExpectedRoot(program)

\* ---------------------------------------------------------------------------
\* C17: a route whose response body is built entirely from an imported JSON
\* document is STATIC, be the body the default import itself, a nested field
\* of it or an object literal that spreads it; a body that is a value of a
\* TypeScript file named like a data file and holding Date.now() is DYNAMIC
\* with reason "Response body has variables".
JsonImports == {"config", "base"}
RECURSIVE IsBuiltFromJson(_)
IsJsonField(e) ==
    e.k = "PropertyAccessExpression" /\ IsBuiltFromJson(e.kids[1]) /\ MemberOf(e.kids[1], e.s) # <<>>
IsJsonMember(p) ==
    \/ p.k = "SpreadAssignment" /\ IsBuiltFromJson(p.kids[1])
    \/ p.k = "PropertyAssignment" /\ ~HasComputedName(p)
       /\ (Initializer(p).k = "NumericLiteral" \/ IsBuiltFromJson(Initializer(p)))
IsBuiltFromJson(e) ==
    \/ e.k = "Identifier" /\ e.s \in JsonImports
    \/ IsJsonField(e)
    \/ e.k = "ObjectLiteralExpression" /\ e.kids # <<>>
       /\ (\A i \in 1..Len(e.kids) : IsJsonMember(e.kids[i]))
       /\ (\E j \in 1..Len(e.kids) :
              (e.kids[j].k = "SpreadAssignment") \/ IsBuiltFromJson(Initializer(e.kids[j])))
JsonVerdict(body, entry) ==
    /\ IsBuiltFromJson(body) => entry.type = "STATIC"
    /\ body = Ident("badData")
           => entry.type = "DYNAMIC" /\ entry.reason = <<"Response body has variables">>
C17_JsonAssetBodyIsStatic ==
    JustVisited /\ IsJsonRoute(Visited) /\ ~MentionsMarker(Visited.args[1].t)
        => JsonVerdict(JsonBody(Visited), LastEntry)

\* ---------------------------------------------------------------------------
\* C18: a const imported from another file is traced through the import to
\* its declaration: the route answering it is STATIC when the initializer is
\* a literal and DYNAMIC when the initializer calls Date.now(); an imported
\* handler function gets the verdict of the same function declared locally.
LiteralKinds ==
    {"StringLiteral", "NumericLiteral", "TrueKeyword", "FalseKeyword", "NullKeyword"}
IsImportedConst(name) ==
    /\ name \in DOMAIN Symbols /\ Symbols[name].alias
    /\ IsTraceable(Symbols[name].aliased) /\ Symbols[name].aliased[1].flags = "const"
ImportedInitializer(name) == Symbols[name].aliased[1].init[1]
VerdictOfInitializer(init, entry) ==
    /\ init.k \in LiteralKinds => entry.type = "STATIC" /\ entry.reason = <<>>
    /\ TextIncludes(init, "Date.now()")
           => entry.type = "DYNAMIC" /\ entry.reason = <<"Response body has variables">>
ImportedConstVerdict(u, entry) ==
    IsJsonRoute(u) /\ JsonBody(u).k = "Identifier" /\ IsImportedConst(JsonBody(u).s)
        => VerdictOfInitializer(ImportedInitializer(JsonBody(u).s), entry)
\* the imported handlers and the local constants holding the same function
LocalTwin == ("getStatus" :> "localStatus") @@ ("getTime" :> "localTime")
EntryOfVerdict(v) == [type |-> IF v.isStatic THEN "STATIC" ELSE "DYNAMIC", reason |-> v.reason]
SameVerdictAsLocal(imp, entry) ==
    /\ IsImportedConst(imp) /\ ~Symbols[LocalTwin[imp]].alias
    /\ ImportedInitializer(imp) = Symbols[LocalTwin[imp]].decl[1].init[1]
    /\ [type |-> entry.type, reason |-> entry.reason]
           = EntryOfVerdict(analyzeHandler(Ident(LocalTwin[imp])))
ImportedHandlerVerdict(u, entry) ==
    /\ u.args[2].k = "Identifier" /\ u.args[2].s \in DOMAIN LocalTwin
           => SameVerdictAsLocal(u.args[2].s, entry)
    /\ u.args[2] = Ident("getInfo") => entry.type = "STATIC"
C18_ImportedBindingIsTraced ==
    JustVisited /\ Len(Visited.args) = 2 /\ ~MentionsMarker(Visited.args[1].t)
        => ImportedConstVerdict(Visited, LastEntry) /\ ImportedHandlerVerdict(Visited, LastEntry)
C18_Witness ==
    /\ JustVisited /\ IsJsonRoute(Visited) /\ JsonBody(Visited) = Ident("TIME")
    /\ ~MentionsMarker(Visited.args[1].t)
    /\ LastEntry.type = "DYNAMIC" /\ LastEntry.reason = <<"Response body has variables">>

\* ---------------------------------------------------------------------------
\* C19: a mount call whose child cannot be traced to a router (it is not an
\* identifier, or no route or mount is registered on it) yields no entry and
\* no failure, and the entries of the rest of the program are those of the
\* program without that call.
HasRegistrations(prog, name) ==
    \E i \in 1..Len(prog.uses) :
        prog.uses[i].recv = name /\ (IsRoute(prog.uses[i]) \/ IsMount(prog.uses[i]))
IsUnresolvableMount(prog, u) ==
    /\ IsCall(u) /\ u.method = "route" /\ Len(u.args) >= 2
    /\ u.args[2].k # "Identifier" \/ ~HasRegistrations(prog, u.args[2].s)
HasUnresolvableMount(prog) ==
    \E i \in 1..Len(prog.uses) : IsUnresolvableMount(prog, prog.uses[i])
Pruned(prog) ==
    [prog EXCEPT !.uses = SelectSeq(prog.uses, LAMBDA u : ~IsUnresolvableMount(prog, u))]
\* the entries of the registrations reached from a router, in the order of
\* the walk
RECURSIVE EntriesFrom(_, _, _, _, _)
EntriesAt(prog, u, rawPrefix, fuel) ==
    IF IsRoute(u) THEN <<EntryAt(Squash(rawPrefix \o u.args[1].t), u)>>
    ELSE IF IsMount(u) /\ fuel > 0
    THEN EntriesFrom(prog, Usages(prog, u.args[2].s), 1, rawPrefix \o u.args[1].t, fuel - 1)
    ELSE <<>>
EntriesFrom(prog, us, i, rawPrefix, fuel) ==
    IF i > Len(us) THEN <<>>
    ELSE EntriesAt(prog, us[i], rawPrefix, fuel) \o EntriesFrom(prog, us, i + 1, rawPrefix, fuel)
EntriesOf(prog, root) == EntriesFrom(prog, Usages(prog, root), 1, <<>>, MaxStack)
IsSelfMount(u) == IsMount(u) /\ u.args[2].s = u.recv
HasSelfMount(prog) == \E i \in 1..Len(prog.uses) : IsSelfMount(prog.uses[i])
ReturnsEntriesOf(prog, root, rs) == rs = SortByPath(EntriesOf(prog, root))
C19_UnresolvableMountIsSkipped ==
    /\ pc = "done" /\ rootRouterName # <<>>
           => ReturnsEntriesOf(Pruned(program), rootRouterName[1], results)
    /\ pc = "crashed" => HasSelfMount(program)
C19_Witness ==
    /\ pc = "done" /\ rootRouterName # <<>>
    /\ \E i \in 1..Len(program.uses) :
           /\ IsMount(program.uses[i]) /\ program.uses[i].recv = rootRouterName[1]
           /\ IsUnresolvableMount(program, program.uses[i])
    /\ \E i \in 1..Len(program.uses) :
           /\ program.uses[i].method = "route" /\ Len(program.uses[i].args) >= 2
           /\ program.uses[i].args[2].k # "Identifier"
    /\ Len(results) = 1

\* ---------------------------------------------------------------------------
\* C20: a handler with a block body is static only if every return path
\* yields a response call with a static body: every return statement outside
\* nested function literals is examined, a body without a return path is
\* DYNAMIC with reason "No return", and the first non-static return in source
\* order supplies the reason.
RECURSIVE OuterReturns(_)
RECURSIVE OuterReturnsIn(_, _)
OuterReturnsIn(kids, i) ==
    IF i > Len(kids) THEN <<>> ELSE OuterReturns(kids[i]) \o OuterReturnsIn(kids, i + 1)
OuterReturns(n) ==
    IF n.k = "ReturnStatement" THEN <<n>>
    ELSE IF IsFunctionLike(n) THEN <<>>
    ELSE OuterReturnsIn(n.kids, 1)
YieldsStaticResponse(r) == r.kids # <<>> /\ analyzeReturn(r.kids[1]).isStatic
ReasonOfReturn(r) == analyzeReturn(r.kids[1]).reason
NonStaticReturns(rs) == SelectSeq(rs, LAMBDA r : r.kids # <<>> /\ ~YieldsStaticResponse(r))
ReturnPathVerdict(rs, entry) ==
    /\ entry.type = "STATIC" => rs # <<>> /\ \A i \in 1..Len(rs) : YieldsStaticResponse(rs[i])
    /\ rs = <<>> => entry.type = "DYNAMIC" /\ entry.reason = <<"No return">>
    /\ NonStaticReturns(rs) # <<>>
           => entry.type = "DYNAMIC" /\ entry.reason = ReasonOfReturn(NonStaticReturns(rs)[1])
C20_StaticOnlyIfEveryReturnIsStatic ==
    JustVisited /\ Len(Visited.args) = 2 /\ Visited.args[2] \in ReturnPathHandlers
        /\ ~MentionsMarker(Visited.args[1].t)
        => ReturnPathVerdict(OuterReturns(FuncBody(Visited.args[2])), LastEntry)

\* ---------------------------------------------------------------------------
\* C21: a handler that calls its second parameter, whatever the parameter is
\* named, is DYNAMIC with the reason "Middleware chain (calls next)", and a
\* route with such a handler among its arguments is DYNAMIC.
RECURSIVE CallsName(_, _)
CallsName(n, name) ==
    \/ n.k = "CallExpression" /\ n.kids[1].k = "Identifier" /\ n.kids[1].s = name
    \/ \E i \in 1..Len(n.kids) : CallsName(n.kids[i], name)
InvokesSecondParameter(func) ==
    /\ func.k \in {"ArrowFunction", "FunctionExpression", "FunctionDeclaration"}
    /\ Len(FuncParams(func)) >= 2 /\ FuncParams(func)[2].k = "Identifier"
    /\ CallsName(FuncBody(func), FuncParams(func)[2].s)
\* the function a handler argument stands for
DeclaredFunction(decl) == IF decl # <<>> /\ decl[1].init # <<>> THEN decl[1].init[1] ELSE Missing
HandlerFunction(arg) ==
    IF arg.k = "Identifier" THEN DeclaredFunction(getDeclarationOpt(getSymbolAtLocation(arg))) ELSE arg
InvokesNext(arg) == InvokesSecondParameter(HandlerFunction(arg))
IsMiddlewareVerdict(v) == ~v.isStatic /\ v.reason = <<"Middleware chain (calls next)">>
MiddlewareIsDynamic(u, entry) ==
    \A j \in 2..Len(u.args) :
        InvokesNext(u.args[j]) => IsMiddlewareVerdict(analyzeHandler(u.args[j])) /\ entry.type = "DYNAMIC"
C21_HandlerCallingNextIsDynamic ==
    JustVisited => MiddlewareIsDynamic(Visited, LastEntry)

\* ---------------------------------------------------------------------------
\* C22: in a handler whose first parameter is the context, a property access
\* on the parameter or a destructuring of it that names a member outside the
\* allow-list makes the handler DYNAMIC with reason "Uses dynamic context:
\* c.<member>", and binding the parameter itself to another variable makes
\* the handler DYNAMIC.
RECURSIVE DisallowedMembers(_, _)
MembersNamedAt(n, ctxName) ==
    IF n.k = "PropertyAccessExpression" /\ n.kids[1] = Ident(ctxName) /\ n.s \notin Allowed
    THEN {n.s}
    ELSE IF n.k = "VariableDeclaration" /\ n.kids[1].k = "ObjectBindingPattern"
            /\ n.kids[2] = Ident(ctxName)
    THEN {n.kids[1].kids[i].s : i \in 1..Len(n.kids[1].kids)} \ Allowed
    ELSE {}
DisallowedMembers(n, ctxName) ==
    MembersNamedAt(n, ctxName) \cup UNION {DisallowedMembers(n.kids[i], ctxName) : i \in 1..Len(n.kids)}
RECURSIVE AliasesContext(_, _)
AliasesContext(n, ctxName) ==
    \/ n.k = "VariableDeclaration" /\ n.kids[1].k = "Identifier" /\ n.kids[2] = Ident(ctxName)
    \/ n.k = "BinaryExpression" /\ n.s = "=" /\ n.kids[1].k = "Identifier"
       /\ n.kids[2] = Ident(ctxName)
    \/ \E i \in 1..Len(n.kids) : AliasesContext(n.kids[i], ctxName)
HasContextParameter(func) ==
    /\ func.k \in {"ArrowFunction", "FunctionExpression"}
    /\ FuncParams(func) # <<>> /\ FuncParams(func)[1].k = "Identifier"
    /\ FuncBody(func).k # "Missing"
NoTextHit(func) == ~UsesDynamicGlobal(func) /\ ~TextIncludes(func, "next()")
ContextVerdict(members, aliased, entry) ==
    /\ members # {} \/ aliased => entry.type = "DYNAMIC"
    /\ members # {} /\ ~aliased
           => \E m \in members : entry.reason = <<"Uses dynamic context: c." \o m>>
ContextUseIsDynamic(func, entry) ==
    HasContextParameter(func) /\ NoTextHit(func)
        => ContextVerdict(DisallowedMembers(FuncBody(func), FuncParams(func)[1].s),
                          AliasesContext(FuncBody(func), FuncParams(func)[1].s), entry)
C22_DisallowedContextUseIsDynamic ==
    JustVisited /\ Len(Visited.args) = 2 /\ ~MentionsMarker(Visited.args[1].t)
        => ContextUseIsDynamic(Visited.args[2], LastEntry)

\* ---------------------------------------------------------------------------
\* C23: an object literal is static if and only if every member is static: a
\* key: value member needs a static value, a spread member a static source,
\* a member with a computed key a static key expression and a static value;
\* an object whose computed key is not static is not static even when the
\* value is a literal.
IsStaticInPlace(e) == isDeeplyStatic(e, 1)
MemberIsStatic(p) ==
    IF p.k = "SpreadAssignment" THEN IsStaticInPlace(p.kids[1])
    ELSE IF HasComputedName(p)
    THEN IsStaticInPlace(p.kids[1].kids[1]) /\ IsStaticInPlace(Initializer(p))
    ELSE IsStaticInPlace(Initializer(p))
IsPlainObject(e) ==
    /\ e.k = "ObjectLiteralExpression"
    /\ \A i \in 1..Len(e.kids) : e.kids[i].k \in {"SpreadAssignment", "PropertyAssignment"}
EveryMemberStatic(e) == \A i \in 1..Len(e.kids) : MemberIsStatic(e.kids[i])
HasUnstableKey(e) ==
    \E i \in 1..Len(e.kids) :
        HasComputedName(e.kids[i]) /\ ~IsStaticInPlace(e.kids[i].kids[1].kids[1])
ObjectVerdict(func, e, entry) ==
    /\ isDeeplyStatic(e, 0) <=> EveryMemberStatic(e)
    /\ HasUnstableKey(e) => ~isDeeplyStatic(e, 0) /\ entry.type = "DYNAMIC"
    /\ NoTextHit(func) => (entry.type = "STATIC" <=> EveryMemberStatic(e))
C23_ObjectStaticIffEveryMemberStatic ==
    JustVisited /\ IsJsonRoute(Visited) /\ IsPlainObject(JsonBody(Visited))
        /\ ~MentionsMarker(RawPrefix(Len(stack)) \o Visited.args[1].t)
        => ObjectVerdict(Visited.args[2], JsonBody(Visited), LastEntry)
C23_Witness ==
    /\ JustVisited /\ IsJsonRoute(Visited)
    /\ JsonBody(Visited) = Obj(<<PAComputed(Ident("ver"), Str("value"))>>)
    /\ LastEntry.type = "DYNAMIC" /\ LastEntry.reason = <<"Response body has variables">>

\* ---------------------------------------------------------------------------
\* C24: isDeeplyStatic is true for string, number, boolean, null and
\* no-substitution template literals, true for an array literal exactly when
\* every element is static, and false for an interpolated template literal
\* and every other form: calls, new, unary and binary expressions, ternaries.
PrimitiveKinds ==
    {"StringLiteral", "NumericLiteral", "TrueKeyword", "FalseKeyword", "NullKeyword",
     "NoSubstitutionTemplateLiteral"}
CompositeKinds ==
    {"ArrayLiteralExpression", "ObjectLiteralExpression", "PropertyAccessExpression", "Identifier"}
EveryElementStatic(e) == \A i \in 1..Len(e.kids) : isDeeplyStatic(e.kids[i], 1)
FormVerdict(e, static) ==
    /\ e.k \in PrimitiveKinds => static
    /\ e.k = "ArrayLiteralExpression" => (static <=> EveryElementStatic(e))
    /\ e.k \notin PrimitiveKinds \cup CompositeKinds => ~static
RouteFollows(func, static, entry) ==
    /\ static /\ NoTextHit(func) => entry.type = "STATIC"
    /\ ~static => entry.type = "DYNAMIC"
C24_LiteralsAndArraysOnly ==
    JustVisited /\ IsJsonRoute(Visited)
        /\ ~MentionsMarker(RawPrefix(Len(stack)) \o Visited.args[1].t)
        => /\ FormVerdict(JsonBody(Visited), isDeeplyStatic(JsonBody(Visited), 0))
           /\ RouteFollows(Visited.args[2], isDeeplyStatic(JsonBody(Visited), 0), LastEntry)
C24_Witness ==
    /\ JustVisited /\ IsJsonRoute(Visited)
    /\ JsonBody(Visited) = TmplExpr(<<Ident("version")>>)
    /\ LastEntry.type = "DYNAMIC" /\ LastEntry.reason = <<"Response body has variables">>

\* ---------------------------------------------------------------------------
\* C25: a returned expression is accepted as a response only when it is a
\* call of json, text or html on the context, directly (c.json(x)) or at the
\* end of a chain (c.status(200).header(..).json(x)); it is static when the
\* call has no body argument or a static one, and every other returned
\* expression makes the handler DYNAMIC.
RECURSIVE IsChainOn(_, _)
IsChainOn(e, ctxName) ==
    \/ e = Ident(ctxName)
    \/ e.k \in {"CallExpression", "PropertyAccessExpression"} /\ IsChainOn(e.kids[1], ctxName)
IsResponseCall(e, ctxName) ==
    /\ e.k = "CallExpression" /\ e.kids[1].k = "PropertyAccessExpression"
    /\ e.kids[1].s \in {"json", "text", "html"}
    /\ IsChainOn(e.kids[1].kids[1], ctxName)
HasStaticBody(e) == Len(e.kids) = 1 \/ isDeeplyStatic(e.kids[2], 0)
ContextNameOf(func) ==
    IF FuncParams(func) # <<>> /\ FuncParams(func)[1].k = "Identifier"
    THEN FuncParams(func)[1].s ELSE ""
IsClean(func, ctxName) ==
    NoTextHit(func) /\ DisallowedMembers(FuncBody(func), ctxName) = {}
ReturnedVerdict(func, ctxName, entry) ==
    /\ entry.type = "STATIC"
           => IsResponseCall(FuncBody(func), ctxName) /\ HasStaticBody(FuncBody(func))
    /\ IsResponseCall(FuncBody(func), ctxName) /\ HasStaticBody(FuncBody(func))
           /\ IsClean(func, ctxName) => entry.type = "STATIC"
ReturnsExpression(func) ==
    func.k \in {"ArrowFunction", "FunctionExpression"} /\ FuncBody(func).k \notin {"Block", "Missing"}
ExternalReasons == {<<"Unresolved Identifier">>, <<"No definition found">>, <<"External function">>}
IsUntraceable(decl) ==
    decl = <<>> \/ (~IsTraceable(decl) /\ decl[1].dk # "FunctionDeclaration")
IsExternalHandler(arg) ==
    arg.k = "Identifier"
        /\ (getSymbolAtLocation(arg) = <<>> \/ IsUntraceable(getDeclarationOpt(getSymbolAtLocation(arg))))
IsExternalVerdict(v) == ~v.isStatic /\ v.reason \in ExternalReasons
VerdictOfDefinition(def) ==
    IF def.k = "FunctionDeclaration" THEN analyzeFunctionBody(def) ELSE analyzeHandler(def)
TracedVerdict(arg) ==
    IF IsExternalHandler(arg) THEN IsExternalVerdict(analyzeHandler(arg))
    ELSE analyzeHandler(arg) = VerdictOfDefinition(DeclaredFunction(getDeclarationOpt(getSymbolAtLocation(arg))))
IdentifierHandlerVerdict(u, entry) ==
    /\ \A j \in 2..Len(u.args) :
           u.args[j].k = "Identifier"
               => /\ TracedVerdict(u.args[j])
                  /\ IsExternalHandler(u.args[j]) => entry.type = "DYNAMIC"
    /\ Len(u.args) = 2 /\ u.args[2].k = "Identifier" /\ ~MentionsMarker(entry.path)
           => /\ entry.type = "STATIC" <=> analyzeHandler(u.args[2]).isStatic
              /\ entry.reason = analyzeHandler(u.args[2]).reason
C26_IdentifierHandlerIsTraced == JustVisited => IdentifierHandlerVerdict(Visited, LastEntry)
C26_Witness ==
    /\ JustVisited /\ Len(Visited.args) = 2 /\ Visited.args[2] = Ident("pending")
    /\ LastEntry.type = "DYNAMIC" /\ LastEntry.reason = <<"External function">>

\* ---------------------------------------------------------------------------
\* C29: a route registered with a literal path and no handler argument at all
\* (router.get('/x')), whose path holds neither ":" nor "*", yields an entry of
\* type STATIC with no reason: the handler loop runs zero times.
HasNoHandler(u) == Len(u.args) = 1 /\ u.args[1].k = "StringLiteral"
IsBareStaticEntry(u, fullPath, entry) ==
    entry = [method |-> toUpperCase(u.method), path |-> Squash(fullPath),
             type |-> "STATIC", reason |-> <<>>]
C29_RouteWithoutHandlerIsStatic ==
    JustVisited /\ HasNoHandler(Visited)
        /\ ~MentionsMarker(RawPrefix(Len(stack)) \o Visited.args[1].t)
        => IsBareStaticEntry(Visited, RawPrefix(Len(stack)) \o Visited.args[1].t, LastEntry)
C29_Witness ==
    /\ JustVisited /\ HasNoHandler(Visited) /\ ~MentionsMarker(Visited.args[1].t)
    /\ LastEntry.type = "STATIC" /\ LastEntry.reason = <<>>

\* ---------------------------------------------------------------------------
\* C30: the type and reason of an entry depend only on its registration's own
\* full path and handler arguments: every other call the walk meets
\* (router.use(..), router.all/on(..), other verb registrations) leaves the
\* entries already produced as they are, and a call whose method is not one
\* of get, post, put, delete, patch adds no entry (route adds none itself).
OwnVerdict(u, fullPath, entry) ==
    IF MentionsMarker(fullPath)
    THEN entry.type = "DYNAMIC" /\ entry.reason = <<"Route has params/wildcards">>
    ELSE VerdictOfHandlers(u, entry)
AddsEntry(u) ==
    /\ u.kind = "call" /\ u.method \in {"get", "post", "put", "delete", "patch"}
    /\ Len(u.args) >= 1 /\ u.args[1].k = "StringLiteral"
OtherCallsLeaveEntries ==
    pc = "walk" /\ pc' = "walk"
        => /\ Len(results') >= Len(results)
           /\ SubSeq(results', 1, Len(results)) = results
           /\ Len(results') > Len(results)
                  => Top.i <= Len(TopUsages) /\ AddsEntry(Current) /\ Len(results') = Len(results) + 1
C30_EntryDependsOnOwnRegistration ==
    /\ [](JustVisited => OwnVerdict(Visited, RawPrefix(Len(stack)) \o Visited.args[1].t, LastEntry))
    /\ [][OtherCallsLeaveEntries]_vars
C30_Witness ==
    /\ pc = "walk" /\ stack # <<>> /\ Top.i = 3
    /\ TopUsages[1].method = "get" /\ TopUsages[2].method = "use"
    /\ Len(results) = 1 /\ results[1].type = "STATIC"

\* ---------------------------------------------------------------------------
\* C27: in the Vercel build with static optimisation, the routes written to
\* config.json hold one cache-control rule per analysed entry of type STATIC
\* and none for any other entry, all of them before the generic "/api/(.*)"
\* rule; when the analysis throws or returns no STATIC entry there is no cache
\* rule, and the configuration is written all the same.
Routes == output[1].config.routes
IsCacheRule(r) == r.headers # <<>>
IsGenericRule(r) == r.dest = <<"/api">>
StaticEntries(analyzed) == {i \in 1..Len(analyzed) : analyzed[i].type = "STATIC"}
CacheRuleIndexes(routes) == {i \in 1..Len(routes) : IsCacheRule(routes[i])}
GenericIndex(routes) == CHOOSE i \in 1..Len(routes) : IsGenericRule(routes[i])
SrcOf(entry) == <<"^", "/", "a", "p", "i">> \o (IF entry.path = <<"/">> THEN <<>> ELSE entry.path) \o <<"$">>
\* the k-th cache rule comes from the k-th STATIC entry, and only from one
RulesFollowStaticEntries(analyzed, routes) ==
    /\ Cardinality(CacheRuleIndexes(routes)) = Cardinality(StaticEntries(analyzed))
    /\ \A i \in StaticEntries(analyzed) :
           LET k == Cardinality({j \in StaticEntries(analyzed) : j <= i})
           IN  IsCacheRule(routes[k]) /\ routes[k].src = <<SrcOf(analyzed[i])>>
                   /\ routes[k].continue = <<TRUE>>
CacheRulesComeFirst(routes) ==
    /\ Cardinality({i \in 1..Len(routes) : IsGenericRule(routes[i])}) = 1
    /\ \A i \in CacheRuleIndexes(routes) : i < GenericIndex(routes)
AnalysisThrew == console # <<>> /\ console[Len(console)] = "error"
C27_CacheRulesExactlyForStaticEntries ==
    pc = "built" /\ output[1].static
        => /\ output # <<>>
           /\ CacheRulesComeFirst(Routes)
           /\ IF AnalysisThrew THEN CacheRuleIndexes(Routes) = {}
              ELSE RulesFollowStaticEntries(results, Routes)
C27_Witness ==
    /\ pc = "built" /\ output[1].static /\ ~AnalysisThrew
    /\ \E i, j \in 1..Len(results) : results[i].type = "STATIC" /\ results[j].type = "DYNAMIC"
    /\ Cardinality(CacheRuleIndexes(Routes)) = 1

\* ---------------------------------------------------------------------------
\* C28: every cache-control rule is scoped to exactly the method and path of
\* the STATIC entry it was generated from: a request with the same path but
\* another HTTP method, or with another path, never matches the rule.
\* A rule of config.json matches a request whose path its src pattern accepts
\* and, when the rule has a methods member, whose method is listed in it.
RequestMethods == {"GET", "POST", "PUT", "DELETE", "PATCH"}
RequestPathOf(entry) == <<"/", "a", "p", "i">> \o (IF entry.path = <<"/">> THEN <<>> ELSE entry.path)
RequestPaths(analyzed) ==
    {RequestPathOf(analyzed[i]) : i \in 1..Len(analyzed)} \cup {<<"/", "a", "p", "i", "/", "o", "t", "h", "e", "r">>}
RuleMatches(rule, method, requestPath) ==
    /\ rule.src = <<<<"^">> \o requestPath \o <<"$">>>>
    /\ "methods" \in DOMAIN rule => method \in rule.methods
ScopedToEntry(rule, entry, analyzed) ==
    \A method \in RequestMethods : \A requestPath \in RequestPaths(analyzed) :
        RuleMatches(rule, method, requestPath)
            => method = entry.method /\ requestPath = RequestPathOf(entry)
C28_CacheRuleScopedToMethodAndPath ==
    pc = "built" /\ output[1].static /\ ~AnalysisThrew
        => \A i \in StaticEntries(results) :
               ScopedToEntry(Routes[Cardinality({j \in StaticEntries(results) : j <= i})], results[i], results)

====
